---- MODULE Spec2Model ----
(***************************************************************************)
(* Chitter: a multi-tenant chat backend with two storage backends behind   *)
(* one service contract (interface Chitter, src/src/server/chitter.ts):    *)
(*   - ChitterMem               (src/unnamed/part_007, lines 1357-2084)    *)
(*   - PostgresChitterDatabase  (src/unnamed/part_003)                     *)
(* The variable `backend` says which implementation a behaviour runs.      *)
(*                                                                         *)
(* ChitterMem's operations contain no await, so each is one atomic action. *)
(* The SQL backend suspends at every await; the operations that touch the  *)
(* in-process code maps (inviteCodes, transferCodes) around such awaits    *)
(* are split at those awaits, one call per slot of `calls`.                *)
(*                                                                         *)
(* uuidv4() values are modelled as fresh integers taken from counters.     *)
(* Time is in milliseconds, as in the source.                              *)
(***************************************************************************)
EXTENDS Integers, Sequences, FiniteSets, TLC

\* ---- bounds of the model ------------------------------------------------
MaxRooms == 2
MaxUsers == 3
MaxCodes == 2
MaxTicks == 2
MaxRotations == 1
MaxChannels == 1
MaxMessages == 1
MaxStream == 2
MaxLimit == 2
MaxScript == 3
MaxSaves == 2
Procs == {1, 2}
Names == {"a", "b"}

\* ---- program constants --------------------------------------------------
InviteTTL == 86400000
TransferTTL == 3600000
SweepInterval == 3600000

VARIABLES
    backend,      \* "mem" | "pg": which implementation of Chitter is running
    now,          \* Date.now()
    ticks,        \* number of time advances so far (bounds the model)
    rooms,        \* seq: room id -> [adminInviteOnly]
    users,        \* seq: user id -> [roomId, token, displayName, role]
    roomUsers,    \* mem: ids of the users still in MemRoom.users / idToUser
    tokenToUser,  \* mem: ChitterMem.tokenToUser, token -> user id
    nextToken,    \* next fresh uuid used as a token
    inviteCodes,  \* code -> [roomId, expiresAt]
    transferCodes,\* code -> [users (pg: userIds, mem: userTokens), expiresAt]
    nextCode,     \* next fresh uuid used as a code
    channels,     \* seq: channel id -> [roomId, isPrivate, createdBy, live]
    members,      \* channel id -> user ids (mem: MemChannel.users,
                  \*                         pg: private_channel_members)
    msgObj,       \* mem: the MemMessage objects, by allocation order
    roomMsgs,     \* mem: room id -> MemRoom.messages, a seq of object refs
    chanMsgs,     \* mem: channel id -> MemChannel.messages, a seq of object refs
    idToMsg,      \* mem: room id -> MemRoom.idToMessage, message id -> object ref
    nextMessageId,\* mem: room id -> MemRoom.nextMessageId
    pgMessages,   \* pg: the messages table, id -> [userId, channelId, directMessageUserId, text]
    pgSeq,        \* pg: the BIGSERIAL sequence behind messages.id
    maxReturned,  \* history: <<>> or <<the largest messageId createMessage returned>>
    calls,        \* pg: per slot, the suspended call and its locals
    last,         \* the call that returned last, with its outcome
    codeHist,     \* history: code -> [kind, expiresAt, uses] since it was minted
    revoked,      \* history: tokens held by a user when removeUser succeeded
    removed,      \* history: the users on whom removeUser succeeded
    script,       \* the calls a client made on ChitterMem and makes again on the
                  \* SQL backend, with the outcomes on each
    timers,       \* closed, the pending timeouts of cleanupCodes and persist,
                  \* the calls of persistance.save, and how far close() has come
    pool          \* pg: per slot, whether its call holds a pool client, and
                  \* how often the call has released one

baseVars == <<backend, now, ticks, script, timers>>
envVars  == <<baseVars, pool>>
roomVars == <<rooms>>
userVars == <<users, roomUsers, tokenToUser, nextToken>>
credVars == <<inviteCodes, transferCodes, nextCode>>
chanVars == <<channels, members>>
msgVars  == <<msgObj, roomMsgs, chanMsgs, idToMsg, nextMessageId, pgMessages, pgSeq, maxReturned>>
histVars == <<codeHist, revoked, removed>>
vars == <<envVars, roomVars, userVars, credVars, chanVars, msgVars, calls, last, histVars>>

Ok == "ok"
Idle == [pc |-> "idle"]

\* the calls of the SQL backend that are suspended at an await
InFlight == {p \in Procs : calls[p].pc # "idle"}
InFlightCreates == {p \in Procs : calls[p].pc \in {"cu_lookup", "cu_named"}}

\* ---- lookups --------------------------------------------------------------

\* pg: SELECT ... FROM users WHERE token = $1 (rows[0] of the result)
PgUsersByToken(t) == {u \in DOMAIN users : users[u].token = t}

\* mem: this.tokenToUser.get(token); pg: the users row with that token.
\* 0 stands for "no user".
Resolve(t) ==
    IF backend = "mem"
    THEN IF t \in DOMAIN tokenToUser THEN tokenToUser[t] ELSE 0
    ELSE IF PgUsersByToken(t) = {} THEN 0 ELSE CHOOSE u \in PgUsersByToken(t) : TRUE

\* the tokens a caller may present: every token ever issued, and one never issued
AnyToken == 0 .. (nextToken - 1)

\* the codes a caller may present: every code ever minted, and one never minted
AnyCode == 0 .. (nextCode - 1)

\* the users of a room, as the backend sees them
\* mem: MemRoom.users; pg: SELECT ... FROM users WHERE room_id = $1
UsersOfRoom(r) ==
    IF backend = "mem"
    THEN {u \in roomUsers : users[u].roomId = r}
    ELSE {u \in DOMAIN users : users[u].roomId = r}

\* a map whose entry is not deleted
Retain(f, k) == f

Remove(f, k) == [x \in (DOMAIN f) \ {k} |-> f[x]]
Put(f, k, v) == [x \in (DOMAIN f) \cup {k} |-> IF x = k THEN v ELSE f[x]]

\* The timers of a new backend.  The constructor of the SQL backend has
\* called cleanupCodes(), which armed its timeout; initialize() of a
\* ChitterMem with a persistance has called persist(), which saved once and
\* armed its timeout, and cleanupCodes().
ArmedTimers(persists) ==
    [closed |-> FALSE, sweep |-> TRUE, persist |-> persists,
     saves |-> IF persists THEN 1 ELSE 0, close |-> "none"]

Init ==
    /\ backend \in {"mem", "pg"}
    /\ now = 0
    /\ ticks = 0
    /\ rooms = <<>>
    /\ users = <<>>
    /\ roomUsers = {}
    /\ tokenToUser = <<>>
    /\ nextToken = 1
    /\ inviteCodes = <<>>
    /\ transferCodes = <<>>
    /\ nextCode = 1
    /\ channels = <<>>
    /\ members = <<>>
    /\ msgObj = <<>>
    /\ roomMsgs = <<>>
    /\ chanMsgs = <<>>
    /\ idToMsg = <<>>
    /\ nextMessageId = <<>>
    /\ pgMessages = <<>>
    /\ pgSeq = 0
    /\ maxReturned = <<>>
    /\ calls = [p \in Procs |-> Idle]
    /\ last = [op |-> "none", tag |-> Ok]
    /\ codeHist = <<>>
    /\ revoked = {}
    /\ removed = {}
    /\ script = [calls |-> <<>>, mem |-> <<>>, pg |-> <<>>]
    /\ timers = ArmedTimers(backend = "mem")
    /\ pool = [p \in Procs |-> [out |-> FALSE, releases |-> 0]]

\* ---- time and the periodic sweep -----------------------------------------

\* cleanupCodes at time `at`: drop every entry with expiresAt < at
Swept(codes, at) ==
    [c \in {x \in DOMAIN codes : ~(codes[x].expiresAt < at)} |-> codes[c]]

\* Time passes by d ms.  cleanupCodes re-arms itself every SweepInterval ms
\* from construction (time 0); every run that falls due in (now, now + d]
\* happens, and as the runs only ever remove more, the last one decides.
AdvanceTime(d) ==
    /\ LET t == now + d
           due == (t \div SweepInterval) * SweepInterval
       IN /\ now' = t
          /\ ticks' = ticks + 1
          /\ IF due > now /\ timers.sweep /\ ~timers.closed
             THEN /\ inviteCodes' = Swept(inviteCodes, due)
                  /\ transferCodes' = Swept(transferCodes, due)
             ELSE UNCHANGED <<inviteCodes, transferCodes>>
    /\ UNCHANGED <<backend, script, timers, pool, roomVars, userVars, nextCode, calls, last, histVars, chanVars, msgVars>>

\* ---- close and the timers ----------------------------------------------------

\* persist() saves whatever closed is
PersistAlways(closed) == TRUE

\* persist(): if (this.closed || !this.persistance) return
PersistSaves(closed) == ~closed

\* The timeout of persist() fires.  persist() saves and arms the timeout again
\* (in its finally), unless the backend is closed.  The handle of the timeout
\* is not kept, so nothing clears it.
MemPersistFires ==
    /\ backend = "mem"
    /\ timers.persist
    /\ timers' = IF PersistSaves(timers.closed)
                 THEN [timers EXCEPT !.saves = @ + 1]
                 ELSE [timers EXCEPT !.persist = FALSE]
    /\ UNCHANGED <<backend, now, ticks, script, pool, roomVars, userVars, credVars,
                   chanVars, msgVars, calls, last, histVars>>

\* ChitterMem.close up to its await: closed = true, clearTimeout of the
\* cleanupCodes timeout and of persistanceTimeout (which was never assigned),
\* and the call of persistance.save
MemCloseSave ==
    /\ backend = "mem"
    /\ timers.close = "none"
    /\ timers' = [timers EXCEPT !.closed = TRUE, !.sweep = FALSE,
                                !.saves = @ + 1, !.close = "saving"]
    /\ UNCHANGED <<backend, now, ticks, script, pool, roomVars, userVars, credVars,
                   chanVars, msgVars, calls, last, histVars>>

\* persistance.save has resolved and close returns
MemCloseReturn ==
    /\ backend = "mem"
    /\ timers.close = "saving"
    /\ timers' = [timers EXCEPT !.close = "returned"]
    /\ last' = [op |-> "close", tag |-> Ok]
    /\ UNCHANGED <<backend, now, ticks, script, pool, roomVars, userVars, credVars,
                   chanVars, msgVars, calls, histVars>>

\* PostgresChitterDatabase.close up to its await: this.pool.end()
PgCloseEnd ==
    /\ backend = "pg"
    /\ timers.close = "none"
    /\ timers' = [timers EXCEPT !.close = "ending"]
    /\ UNCHANGED <<backend, now, ticks, script, pool, roomVars, userVars, credVars,
                   chanVars, msgVars, calls, last, histVars>>

\* pool.end() has resolved: closed = true, clearTimeout(cleanupCodesTimeout)
PgCloseReturn ==
    /\ backend = "pg"
    /\ timers.close = "ending"
    /\ timers' = [timers EXCEPT !.closed = TRUE, !.sweep = FALSE, !.close = "returned"]
    /\ last' = [op |-> "close", tag |-> Ok]
    /\ UNCHANGED <<backend, now, ticks, script, pool, roomVars, userVars, credVars,
                   chanVars, msgVars, calls, histVars>>

\* ---- the connection pool -----------------------------------------------------

\* the client of slot p stays checked out
NotReleased(p) == pool

\* const client = await this.pool.connect()
Acquired(p) == [pool EXCEPT ![p] = [out |-> TRUE, releases |-> 0]]

\* finally { client.release() }
Released(p) == [pool EXCEPT ![p] = [out |-> FALSE, releases |-> @.releases + 1]]

\* a call that connects and returns within one step
AcquiredAndReleased(p) == [pool EXCEPT ![p] = [out |-> FALSE, releases |-> 1]]

\* ---- createRoomAndAdmin ---------------------------------------------------

\* a user record whose token is the first uuid issued, not a fresh one
NewUserWithIssuedToken(r, name, role) ==
    [roomId |-> r, token |-> 1, displayName |-> name, role |-> role]

\* uuidv4() is a value no earlier call returned
NewUser(r, name, role) ==
    [roomId |-> r, token |-> nextToken, displayName |-> name, role |-> role]

\* the record of a channel; displayName is "General" for the room's first channel
NewChannel(r, isPrivate, by) ==
    [roomId |-> r, isPrivate |-> isPrivate, createdBy |-> by, live |-> TRUE]

\* the rows one createRoomAndAdmin writes, in the order of its INSERTs
TxTables == {"room", "admin", "channel"}

\* the outcome of createRoomAndAdmin
\*   thrown:  the call rejected instead of returning a ChitterError
\*   user, token: the admin created and its token, 0 when none
\*   created: the rows of this call that are stored when it has returned
CreateRoomResult(tag, thrown, u, token, rows) ==
    [op |-> "createRoomAndAdmin", tag |-> tag, thrown |-> thrown,
     user |-> u, token |-> token, created |-> rows]

MemCreateRoomAndAdmin(adminName, adminInviteOnly) ==
    /\ backend = "mem"
    /\ LET r == Len(rooms) + 1
           u == Len(users) + 1
       IN /\ rooms' = Append(rooms, [adminInviteOnly |-> adminInviteOnly])
          /\ users' = Append(users, NewUser(r, adminName, "admin"))
          /\ roomUsers' = roomUsers \cup {u}
          /\ tokenToUser' = Put(tokenToUser, nextToken, u)
          /\ nextToken' = nextToken + 1
          /\ channels' = Append(channels, NewChannel(r, FALSE, u))
          /\ members' = Append(members, {})
          /\ chanMsgs' = Append(chanMsgs, <<>>)
          /\ roomMsgs' = Append(roomMsgs, <<>>)
          /\ idToMsg' = Append(idToMsg, <<>>)
          /\ nextMessageId' = Append(nextMessageId, 0)
          /\ last' = CreateRoomResult(Ok, FALSE, u, nextToken, TxTables)
    /\ UNCHANGED <<envVars, credVars, calls, histVars, msgObj, pgMessages, pgSeq, maxReturned>>

PgCreateRoomAndAdmin(adminName, adminInviteOnly) ==
    /\ backend = "pg"
    /\ LET r == Len(rooms) + 1
           u == Len(users) + 1
       IN /\ rooms' = Append(rooms, [adminInviteOnly |-> adminInviteOnly])
          /\ users' = Append(users, NewUser(r, adminName, "admin"))
          /\ nextToken' = nextToken + 1
          /\ channels' = Append(channels, NewChannel(r, FALSE, u))
          /\ members' = Append(members, {})
          /\ last' = CreateRoomResult(Ok, FALSE, u, nextToken, TxTables)
    /\ UNCHANGED <<envVars, roomUsers, tokenToUser, credVars, calls, histVars, msgVars>>

\* ---- createRoomAndAdmin, statement by statement (pg) -----------------------

\* The awaited statements of the try block: BEGIN, three INSERTs, COMMIT.
\* Any of them, the pool.connect() before the try and the ROLLBACK of the catch
\* block can reject (the database is out of reach, a statement is refused).
TxStatements == <<"BEGIN", "room", "admin", "channel", "COMMIT">>

\* the rows the open transaction has written after `done` statements; they are
\* visible to nobody else before COMMIT
TxWritten(done) == {TxStatements[i] : i \in 1 .. done} \cap TxTables

\* the rows of the transaction that are stored after ROLLBACK
RolledBack(written) == {}

\* pg: const client = await this.pool.connect(), before the try
PgCreateRoomConnect(p, adminName, adminInviteOnly, failed) ==
    /\ backend = "pg"
    /\ calls[p].pc = "idle"
    /\ IF failed
       THEN /\ last' = CreateRoomResult("Could not connect", TRUE, 0, 0, {})
            /\ UNCHANGED <<calls, pool>>
       ELSE /\ calls' = [calls EXCEPT ![p] = [pc |-> "cr_tx", adminName |-> adminName,
                                              adminInviteOnly |-> adminInviteOnly, done |-> 0]]
            /\ pool' = Acquired(p)
            /\ UNCHANGED last
    /\ UNCHANGED <<baseVars, roomVars, userVars, credVars, chanVars, msgVars, histVars>>

\* the rows in `rows` become visible to every connection
PgStoreRows(rows, adminName, adminInviteOnly) ==
    LET r == Len(rooms) + 1
        u == Len(users) + 1
    IN /\ rooms' = IF "room" \in rows
                   THEN Append(rooms, [adminInviteOnly |-> adminInviteOnly]) ELSE rooms
       /\ users' = IF "admin" \in rows
                   THEN Append(users, NewUser(r, adminName, "admin")) ELSE users
       /\ nextToken' = IF "admin" \in rows THEN nextToken + 1 ELSE nextToken
       /\ channels' = IF "channel" \in rows
                      THEN Append(channels, NewChannel(r, FALSE, u)) ELSE channels
       /\ members' = IF "channel" \in rows THEN Append(members, {}) ELSE members

\* pg: one await client.query(...) of the try block
PgCreateRoomStatement(p, failed) ==
    /\ calls[p].pc = "cr_tx"
    /\ LET c == calls[p] IN
       IF failed
       THEN /\ calls' = [calls EXCEPT ![p].pc = "cr_catch"]
            /\ UNCHANGED <<rooms, users, nextToken, channels, members, last, pool>>
       ELSE IF TxStatements[c.done + 1] # "COMMIT"
       THEN /\ calls' = [calls EXCEPT ![p].done = @ + 1]
            /\ UNCHANGED <<rooms, users, nextToken, channels, members, last, pool>>
       ELSE /\ PgStoreRows(TxWritten(c.done), c.adminName, c.adminInviteOnly)
            /\ calls' = [calls EXCEPT ![p] = Idle]
            /\ pool' = Released(p)
            /\ last' = CreateRoomResult(Ok, FALSE, Len(users) + 1, nextToken, TxWritten(c.done))
    /\ UNCHANGED <<baseVars, roomUsers, tokenToUser, credVars, msgVars, histVars>>

\* pg: catch (e) { await client.query("ROLLBACK"); return new ChitterError(...) }
PgCreateRoomCatch(p, failed) ==
    /\ calls[p].pc = "cr_catch"
    /\ LET c == calls[p]
           kept == RolledBack(TxWritten(c.done))
       IN /\ PgStoreRows(kept, c.adminName, c.adminInviteOnly)
          /\ calls' = [calls EXCEPT ![p] = Idle]
          /\ last' = IF failed
                     THEN CreateRoomResult("Could not roll back", TRUE, 0, 0, kept)
                     ELSE CreateRoomResult("Could not create room and admin", FALSE, 0, 0, kept)
          \* the finally block runs whether ROLLBACK raised or not
          /\ pool' = Released(p)
    /\ UNCHANGED <<baseVars, roomUsers, tokenToUser, credVars, msgVars, histVars>>

\* ---- createInviteCode -----------------------------------------------------

\* mem: newInvitecode; pg: this.inviteCodes.set(inviteCode, {roomId, expiresAt})
MintInvite(r) ==
    /\ inviteCodes' = Put(inviteCodes, nextCode, [roomId |-> r, expiresAt |-> now + InviteTTL])
    /\ nextCode' = nextCode + 1
    /\ codeHist' = Put(codeHist, nextCode, [kind |-> "invite", expiresAt |-> now + InviteTTL, uses |-> 0])

\* the outcome of createInviteCode
\*   caller: the user the token resolved to, 0 when none
\*   code:   the code minted, 0 when none
CreateInviteResult(tag, u, code) ==
    [op |-> "createInviteCode", tag |-> tag, caller |-> u, code |-> code]

InviteRefusedInClosedRoom(adminInviteOnly, role) == adminInviteOnly

\* mem: room.room.adminInviteOnly && user.role != "admin"
\* pg:  user.admin_invite_only && user.role !== "admin"
InviteRefused(adminInviteOnly, role) == adminInviteOnly /\ role # "admin"

MemCreateInviteCode(userToken) ==
    /\ backend = "mem"
    /\ LET u == Resolve(userToken) IN
       IF u = 0
       THEN /\ last' = CreateInviteResult("User not found", 0, 0)
            /\ UNCHANGED <<credVars, codeHist>>
       ELSE IF InviteRefused(rooms[users[u].roomId].adminInviteOnly, users[u].role)
       THEN /\ last' = CreateInviteResult("User is not an admin and room is admin invite only", u, 0)
            /\ UNCHANGED <<credVars, codeHist>>
       ELSE /\ MintInvite(users[u].roomId)
            /\ UNCHANGED transferCodes
            /\ last' = CreateInviteResult(Ok, u, nextCode)
    /\ UNCHANGED <<envVars, roomVars, userVars, calls, revoked, removed, chanVars, msgVars>>

PgCreateInviteCode(userToken) ==
    /\ backend = "pg"
    /\ LET u == Resolve(userToken) IN
       IF u = 0
       THEN /\ last' = CreateInviteResult("User not found", 0, 0)
            /\ UNCHANGED <<credVars, codeHist>>
       ELSE IF InviteRefused(rooms[users[u].roomId].adminInviteOnly, users[u].role)
       THEN /\ last' = CreateInviteResult("User is not an admin and room is admin invite only", u, 0)
            /\ UNCHANGED <<credVars, codeHist>>
       ELSE /\ MintInvite(users[u].roomId)
            /\ UNCHANGED transferCodes
            /\ last' = CreateInviteResult(Ok, u, nextCode)
    /\ UNCHANGED <<envVars, roomVars, userVars, calls, revoked, removed, chanVars, msgVars>>

\* ---- createUserFromInviteCode ---------------------------------------------

\* the outcome record of a createUserFromInviteCode call
\*   code, at: the code presented and the time the code map was consulted
\*   later: some call had already succeeded with this code by then
\*   user: the user created, 0 when none
CreateUserResult(tag, thrown, code, at, later, u) ==
    [op |-> "createUserFromInviteCode", tag |-> tag, thrown |-> thrown,
     code |-> code, at |-> at, later |-> later, user |-> u]

\* history: some call has already succeeded with this code
WasUsed(code) == code \in DOMAIN codeHist /\ codeHist[code].uses > 0
MarkUsed(code) == [codeHist EXCEPT ![code].uses = @ + 1]

MemCreateUserFromInviteCode(inviteCode, displayName) ==
    /\ backend = "mem"
    /\ IF inviteCode \notin DOMAIN inviteCodes
       THEN /\ last' = CreateUserResult("Invalid invite code", FALSE, inviteCode, now, WasUsed(inviteCode), 0)
            /\ UNCHANGED <<userVars, codeHist>>
       ELSE LET r == inviteCodes[inviteCode].roomId IN
            IF \E o \in UsersOfRoom(r) : users[o].displayName = displayName
            THEN /\ last' = CreateUserResult("Display name already exists in the room", TRUE,
                                             inviteCode, now, WasUsed(inviteCode), 0)
                 /\ UNCHANGED <<userVars, codeHist>>
            ELSE /\ users' = Append(users, NewUser(r, displayName, "participant"))
                 /\ roomUsers' = roomUsers \cup {Len(users) + 1}
                 /\ nextToken' = nextToken + 1
                 /\ codeHist' = MarkUsed(inviteCode)
                 /\ last' = CreateUserResult(Ok, FALSE, inviteCode, now, WasUsed(inviteCode), Len(users) + 1)
                 /\ UNCHANGED tokenToUser
    /\ UNCHANGED <<envVars, roomVars, credVars, calls, revoked, removed, chanVars, msgVars>>


\* pool.connect() has resolved: this.inviteCodes.get(inviteCode), then BEGIN
PgCreateUserLookup(p, inviteCode, displayName) ==
    /\ backend = "pg"
    /\ calls[p].pc = "idle"
    /\ IF inviteCode \notin DOMAIN inviteCodes
       THEN /\ last' = CreateUserResult("Invalid invite code", FALSE, inviteCode, now, WasUsed(inviteCode), 0)
            /\ pool' = AcquiredAndReleased(p)
            /\ UNCHANGED calls
       ELSE /\ calls' = [calls EXCEPT ![p] =
                    [pc |-> "cu_lookup", code |-> inviteCode, displayName |-> displayName,
                     roomId |-> inviteCodes[inviteCode].roomId, at |-> now,
                     later |-> WasUsed(inviteCode)]]
            /\ pool' = Acquired(p)
            /\ UNCHANGED last
    /\ UNCHANGED <<baseVars, roomVars, userVars, credVars, histVars, chanVars, msgVars>>

\* SELECT 1 FROM users WHERE display_name = $1 AND room_id = $2
PgCreateUserCheckName(p) ==
    /\ backend = "pg"
    /\ calls[p].pc = "cu_lookup"
    /\ LET c == calls[p] IN
       IF \E o \in UsersOfRoom(c.roomId) : users[o].displayName = c.displayName
       THEN /\ last' = CreateUserResult("Display name already exists in the room", FALSE,
                                        c.code, c.at, c.later, 0)
            /\ calls' = [calls EXCEPT ![p] = Idle]
            /\ pool' = Released(p)
       ELSE /\ calls' = [calls EXCEPT ![p].pc = "cu_named"]
            /\ UNCHANGED <<last, pool>>
    /\ UNCHANGED <<baseVars, roomVars, userVars, credVars, histVars, chanVars, msgVars>>

\* INSERT INTO users ..., COMMIT, this.inviteCodes.delete(inviteCode)
PgCreateUserCommit(p) ==
    /\ backend = "pg"
    /\ calls[p].pc = "cu_named"
    /\ LET c == calls[p] IN
       /\ users' = Append(users, NewUser(c.roomId, c.displayName, "participant"))
       /\ nextToken' = nextToken + 1
       /\ inviteCodes' = Remove(inviteCodes, c.code)
       /\ codeHist' = MarkUsed(c.code)
       /\ last' = CreateUserResult(Ok, FALSE, c.code, c.at, c.later, Len(users) + 1)
       /\ calls' = [calls EXCEPT ![p] = Idle]
       /\ pool' = Released(p)
    /\ UNCHANGED <<baseVars, roomVars, roomUsers, tokenToUser, transferCodes, nextCode, revoked, removed, chanVars, msgVars>>

\* ---- removeUser -----------------------------------------------------------

AnyUser == 0 .. Len(users)

RemoveUserResult(tag, thrown, u, old) ==
    [op |-> "removeUser", tag |-> tag, thrown |-> thrown, user |-> u, token |-> old]

MemRemoveUser(userId, adminToken) ==
    /\ backend = "mem"
    /\ LET admin == Resolve(adminToken) IN
       IF admin = 0 \/ users[admin].role # "admin"
       THEN /\ last' = RemoveUserResult("Invalid admin token", FALSE, userId, 0)
            /\ UNCHANGED <<roomUsers, members, revoked, removed>>
       ELSE IF userId \notin UsersOfRoom(users[admin].roomId)
       THEN /\ last' = RemoveUserResult("User not found in admin's room", TRUE, userId, 0)
            /\ UNCHANGED <<roomUsers, members, revoked, removed>>
       ELSE \* MemRoom.removeUser
            /\ roomUsers' = roomUsers \ {userId}
            /\ members' = [c \in DOMAIN members |->
                    IF channels[c].live /\ channels[c].roomId = users[admin].roomId
                    THEN members[c] \ {userId} ELSE members[c]]
            /\ revoked' = revoked \cup {users[userId].token}
            /\ removed' = removed \cup {userId}
            /\ last' = RemoveUserResult(Ok, FALSE, userId, users[userId].token)
    /\ UNCHANGED <<envVars, roomVars, users, tokenToUser, nextToken, credVars, calls, codeHist, channels, msgVars>>

PgRemoveUser(userId, adminToken) ==
    /\ backend = "pg"
    /\ LET admin == Resolve(adminToken) IN
       IF admin = 0 \/ users[admin].role # "admin"
       THEN /\ last' = RemoveUserResult("Invalid admin token", FALSE, userId, 0)
            /\ UNCHANGED <<users, nextToken, members, revoked, removed>>
       ELSE IF userId \notin DOMAIN users \/ users[userId].roomId # users[admin].roomId
       THEN /\ last' = RemoveUserResult("User not found in admin's room", FALSE, userId, 0)
            /\ UNCHANGED <<users, nextToken, members, revoked, removed>>
       ELSE \* DELETE FROM private_channel_members WHERE user_id = $1;
            \* UPDATE users SET token = uuidv4() WHERE id = $2
            /\ members' = [c \in DOMAIN members |-> members[c] \ {userId}]
            /\ users' = [users EXCEPT ![userId].token = nextToken]
            /\ nextToken' = nextToken + 1
            /\ revoked' = revoked \cup {users[userId].token}
            /\ removed' = removed \cup {userId}
            /\ last' = RemoveUserResult(Ok, FALSE, userId, users[userId].token)
    /\ UNCHANGED <<envVars, roomVars, roomUsers, tokenToUser, credVars, calls, codeHist, channels, msgVars>>

\* ---- createTransferBundle / getTransferBundleFromCode ---------------------

MintTransfer(who) ==
    /\ transferCodes' = Put(transferCodes, nextCode, [users |-> who, expiresAt |-> now + TransferTTL])
    /\ nextCode' = nextCode + 1
    /\ codeHist' = Put(codeHist, nextCode, [kind |-> "transfer", expiresAt |-> now + TransferTTL, uses |-> 0])
    /\ UNCHANGED inviteCodes

MemCreateTransferBundle(userTokens) ==
    /\ backend = "mem"
    /\ LET validUserTokens == {t \in userTokens : t \in DOMAIN tokenToUser} IN
       IF validUserTokens = {}
       THEN /\ last' = [op |-> "createTransferBundle", tag |-> "No valid tokens"]
            /\ UNCHANGED <<credVars, codeHist>>
       ELSE /\ MintTransfer(validUserTokens)
            /\ last' = [op |-> "createTransferBundle", tag |-> Ok, code |-> nextCode]
    /\ UNCHANGED <<envVars, roomVars, userVars, calls, revoked, removed, chanVars, msgVars>>

PgCreateTransferBundle(userTokens) ==
    /\ backend = "pg"
    /\ LET validUserIds == {u \in DOMAIN users : users[u].token \in userTokens} IN
       IF validUserIds = {}
       THEN /\ last' = [op |-> "createTransferBundle", tag |-> "No valid tokens"]
            /\ UNCHANGED <<credVars, codeHist>>
       ELSE /\ MintTransfer(validUserIds)
            /\ last' = [op |-> "createTransferBundle", tag |-> Ok, code |-> nextCode]
    /\ UNCHANGED <<envVars, roomVars, userVars, calls, revoked, removed, chanVars, msgVars>>

\* the outcome record of a getTransferBundleFromCode call
\*   tokens: the tokens of the users returned
TransferResult(tag, code, at, later, tokens) ==
    [op |-> "getTransferBundleFromCode", tag |-> tag, code |-> code, at |-> at,
     later |-> later, tokens |-> tokens]

MemGetTransferBundleFromCode(transferCode) ==
    /\ backend = "mem"
    /\ IF transferCode \notin DOMAIN transferCodes
       THEN /\ last' = TransferResult("Invalid or expired transfer code", transferCode, now,
                                      WasUsed(transferCode), {})
            /\ UNCHANGED <<transferCodes, codeHist>>
       ELSE /\ transferCodes' = Remove(transferCodes, transferCode)
            /\ codeHist' = MarkUsed(transferCode)
            /\ last' = TransferResult(Ok, transferCode, now, WasUsed(transferCode),
                            {t \in transferCodes[transferCode].users : t \in DOMAIN tokenToUser})
    /\ UNCHANGED <<envVars, roomVars, userVars, inviteCodes, nextCode, calls, revoked, removed, chanVars, msgVars>>

\* this.transferCodes.get(transferCode) and the expiry test, then pool.connect()
PgGetTransferLookup(p, transferCode) ==
    /\ backend = "pg"
    /\ calls[p].pc = "idle"
    /\ IF \/ transferCode \notin DOMAIN transferCodes
          \/ transferCodes[transferCode].expiresAt < now
       THEN /\ last' = TransferResult("Invalid or expired transfer code", transferCode, now,
                                      WasUsed(transferCode), {})
            /\ UNCHANGED <<calls, pool>>
       ELSE /\ calls' = [calls EXCEPT ![p] =
                    [pc |-> "gt_lookup", code |-> transferCode,
                     userIds |-> transferCodes[transferCode].users, at |-> now,
                     later |-> WasUsed(transferCode)]]
            /\ pool' = Acquired(p)
            /\ UNCHANGED last
    /\ UNCHANGED <<baseVars, roomVars, userVars, credVars, histVars, chanVars, msgVars>>

\* SELECT ... FROM users WHERE id = ANY($1), this.transferCodes.delete(transferCode)
PgGetTransferFetch(p) ==
    /\ backend = "pg"
    /\ calls[p].pc = "gt_lookup"
    /\ LET c == calls[p] IN
       /\ transferCodes' = Remove(transferCodes, c.code)
       /\ codeHist' = MarkUsed(c.code)
       /\ last' = TransferResult(Ok, c.code, c.at, c.later, {users[u].token : u \in c.userIds})
       /\ calls' = [calls EXCEPT ![p] = Idle]
       /\ pool' = Released(p)
    /\ UNCHANGED <<baseVars, roomVars, userVars, inviteCodes, nextCode, revoked, removed, chanVars, msgVars>>

\* ---- setUserRole ----------------------------------------------------------

Roles == {"admin", "participant"}

\* the caller of an admin operation: the user the token resolves to when that
\* user's role is admin, else 0
\* mem: !admin || admin.role != "admin"; pg: WHERE token = $1 AND role = 'admin'
ResolveAdmin(t) ==
    IF Resolve(t) # 0 /\ users[Resolve(t)].role = "admin" THEN Resolve(t) ELSE 0

ChannelOpResult(op, tag, u, c) == [op |-> op, tag |-> tag, user |-> u, channel |-> c]

\* the outcome of addUserToChannel and removeUserFromChannel, with the token
\* the caller presented
MemberOpResult(op, tag, token, u, c) ==
    [op |-> op, tag |-> tag, token |-> token, user |-> u, channel |-> c]

MemSetUserRole(adminToken, userId, role) ==
    /\ backend = "mem"
    /\ LET admin == ResolveAdmin(adminToken) IN
       IF admin = 0
       THEN /\ last' = ChannelOpResult("setUserRole", "Invalid admin token or non-admin user", userId, 0)
            /\ UNCHANGED users
       ELSE IF userId \notin UsersOfRoom(users[admin].roomId)
       THEN /\ last' = ChannelOpResult("setUserRole", "User not found in admin's room", userId, 0)
            /\ UNCHANGED users
       ELSE /\ users' = [users EXCEPT ![userId].role = role]
            /\ last' = ChannelOpResult("setUserRole", Ok, userId, 0)
    /\ UNCHANGED <<envVars, roomVars, roomUsers, tokenToUser, nextToken, credVars, chanVars, msgVars, calls, histVars>>

PgSetUserRole(adminToken, userId, role) ==
    /\ backend = "pg"
    /\ LET admin == ResolveAdmin(adminToken) IN
       IF admin = 0
       THEN /\ last' = ChannelOpResult("setUserRole", "Invalid admin token or non-admin user", userId, 0)
            /\ UNCHANGED users
       ELSE IF userId \notin DOMAIN users \/ users[userId].roomId # users[admin].roomId
       THEN /\ last' = ChannelOpResult("setUserRole", "User not found in admin's room", userId, 0)
            /\ UNCHANGED users
       ELSE /\ users' = [users EXCEPT ![userId].role = role]
            /\ last' = ChannelOpResult("setUserRole", Ok, userId, 0)
    /\ UNCHANGED <<envVars, roomVars, roomUsers, tokenToUser, nextToken, credVars, chanVars, msgVars, calls, histVars>>

\* ---- channels -------------------------------------------------------------

\* mem: room.channels.get(channelId) on the caller's room;
\* pg: SELECT ... FROM channels WHERE id = $1 AND room_id = $2
ChannelInRoom(c, r) ==
    c \in DOMAIN channels /\ channels[c].live /\ channels[c].roomId = r

NobodyJoins(isPrivate, admin) == {}

\* the member list of a new channel
\* mem: if (isPrivate) memChannel.users.push(user)
\* pg: if (isPrivate) INSERT INTO private_channel_members (channel_id, user_id)
CreatorJoins(isPrivate, admin) == IF isPrivate THEN {admin} ELSE {}

MemCreateChannel(adminToken, isPrivate) ==
    /\ backend = "mem"
    /\ LET admin == ResolveAdmin(adminToken) IN
       IF admin = 0
       THEN /\ last' = ChannelOpResult("createChannel", "Invalid admin token or non-admin user", 0, 0)
            /\ UNCHANGED <<chanVars, chanMsgs>>
       ELSE /\ channels' = Append(channels, NewChannel(users[admin].roomId, isPrivate, admin))
            /\ members' = Append(members, CreatorJoins(isPrivate, admin))
            /\ chanMsgs' = Append(chanMsgs, <<>>)
            /\ last' = ChannelOpResult("createChannel", Ok, admin, Len(channels) + 1)
    /\ UNCHANGED <<envVars, roomVars, userVars, credVars, calls, histVars,
                   msgObj, roomMsgs, idToMsg, nextMessageId, pgMessages, pgSeq, maxReturned>>

PgCreateChannel(adminToken, isPrivate) ==
    /\ backend = "pg"
    /\ LET admin == ResolveAdmin(adminToken) IN
       IF admin = 0
       THEN /\ last' = ChannelOpResult("createChannel", "Invalid admin token or non-admin user", 0, 0)
            /\ UNCHANGED chanVars
       ELSE /\ channels' = Append(channels, NewChannel(users[admin].roomId, isPrivate, admin))
            /\ members' = Append(members, CreatorJoins(isPrivate, admin))
            /\ last' = ChannelOpResult("createChannel", Ok, admin, Len(channels) + 1)
    /\ UNCHANGED <<envVars, roomVars, userVars, credVars, calls, histVars, msgVars>>

MemAddUserToChannel(adminToken, userId, channelId) ==
    /\ backend = "mem"
    /\ LET admin == ResolveAdmin(adminToken)
           Res(tag) == MemberOpResult("addUserToChannel", tag, adminToken, userId, channelId)
       IN
       IF admin = 0
       THEN last' = Res("Invalid admin token or non-admin user") /\ UNCHANGED members
       ELSE IF ~ChannelInRoom(channelId, users[admin].roomId) \/ ~channels[channelId].isPrivate
       THEN last' = Res("Channel not found or not private") /\ UNCHANGED members
       ELSE IF userId \notin UsersOfRoom(users[admin].roomId)
       THEN last' = Res("Could not add user to channel") /\ UNCHANGED members
       ELSE /\ members' = [members EXCEPT ![channelId] = @ \cup {userId}]
            /\ last' = Res(Ok)
    /\ UNCHANGED <<envVars, roomVars, userVars, credVars, channels, msgVars, calls, histVars>>

PgAddUserToChannel(adminToken, userId, channelId) ==
    /\ backend = "pg"
    /\ LET admin == ResolveAdmin(adminToken)
           Res(tag) == MemberOpResult("addUserToChannel", tag, adminToken, userId, channelId)
       IN
       IF admin = 0
       THEN last' = Res("Invalid admin token or non-admin user") /\ UNCHANGED members
       ELSE IF ~ChannelInRoom(channelId, users[admin].roomId) \/ ~channels[channelId].isPrivate
       THEN last' = Res("Channel not found or not private") /\ UNCHANGED members
       ELSE IF userId \in members[channelId]
       THEN \* the INSERT violates PRIMARY KEY (channel_id, user_id): caught, ROLLBACK
            last' = Res("Could not add user to channel") /\ UNCHANGED members
       ELSE /\ members' = [members EXCEPT ![channelId] = @ \cup {userId}]
            /\ last' = Res(Ok)
    /\ UNCHANGED <<envVars, roomVars, userVars, credVars, channels, msgVars, calls, histVars>>

MemRemoveUserFromChannel(adminToken, userId, channelId) ==
    /\ backend = "mem"
    /\ LET admin == ResolveAdmin(adminToken)
           Res(tag) == MemberOpResult("removeUserFromChannel", tag, adminToken, userId, channelId)
       IN
       IF admin = 0
       THEN last' = Res("Invalid admin token or non-admin user") /\ UNCHANGED members
       ELSE IF ~ChannelInRoom(channelId, users[admin].roomId) \/ ~channels[channelId].isPrivate
       THEN last' = Res("Channel not found or not private") /\ UNCHANGED members
       ELSE IF userId \notin UsersOfRoom(users[admin].roomId)
       THEN last' = Res("Could not remove user from channel") /\ UNCHANGED members
       ELSE /\ members' = [members EXCEPT ![channelId] = @ \ {userId}]
            /\ last' = Res(Ok)
    /\ UNCHANGED <<envVars, roomVars, userVars, credVars, channels, msgVars, calls, histVars>>

PgRemoveUserFromChannel(adminToken, userId, channelId) ==
    /\ backend = "pg"
    /\ LET admin == ResolveAdmin(adminToken)
           Res(tag) == MemberOpResult("removeUserFromChannel", tag, adminToken, userId, channelId)
       IN
       IF admin = 0
       THEN last' = Res("Invalid admin token or non-admin user") /\ UNCHANGED members
       ELSE IF ~ChannelInRoom(channelId, users[admin].roomId) \/ ~channels[channelId].isPrivate
       THEN last' = Res("Channel not found or not private") /\ UNCHANGED members
       ELSE /\ members' = [members EXCEPT ![channelId] = @ \ {userId}]
            /\ last' = Res(Ok)
    /\ UNCHANGED <<envVars, roomVars, userVars, credVars, channels, msgVars, calls, histVars>>

\* ---- getUsers --------------------------------------------------------------

\* the outcome of getUsers
\*   users: the ids of the users returned
GetUsersResult(tag, token, channelId, ids) ==
    [op |-> "getUsers", tag |-> tag, token |-> token, channelId |-> channelId, users |-> ids]

\* channelId: 0 for undefined
MemGetUsersResult(userToken, channelId) ==
    LET user == Resolve(userToken)
        Res(tag, ids) == GetUsersResult(tag, userToken, channelId, ids)
    IN IF user = 0
       THEN Res("Invalid user token", {})
       ELSE IF channelId = 0
       THEN Res(Ok, UsersOfRoom(users[user].roomId))
       ELSE IF ~ChannelInRoom(channelId, users[user].roomId)
       THEN Res("Could not get users", {})
       ELSE IF ~channels[channelId].isPrivate
       THEN Res("Could not get users", {})
       ELSE Res(Ok, members[channelId])

\* pg: the channel branch joins users with private_channel_members on the
\* channel id alone
PgGetUsersResult(userToken, channelId) ==
    LET user == Resolve(userToken)
        Res(tag, ids) == GetUsersResult(tag, userToken, channelId, ids)
    IN IF user = 0
       THEN Res("Invalid user token", {})
       ELSE IF channelId = 0
       THEN Res(Ok, UsersOfRoom(users[user].roomId))
       ELSE Res(Ok, {u \in DOMAIN users : channelId \in DOMAIN members /\ u \in members[channelId]})

MemGetUsers(userToken, channelId) ==
    /\ backend = "mem"
    /\ last' = MemGetUsersResult(userToken, channelId)
    /\ UNCHANGED <<envVars, roomVars, userVars, credVars, chanVars, msgVars, calls, histVars>>

PgGetUsers(userToken, channelId) ==
    /\ backend = "pg"
    /\ last' = PgGetUsersResult(userToken, channelId)
    /\ UNCHANGED <<envVars, roomVars, userVars, credVars, chanVars, msgVars, calls, histVars>>

\* ---- removeChannel --------------------------------------------------------

\* the current ids of the objects a list of references points to
IdsOf(refs) == {msgObj[refs[i]].id : i \in 1 .. Len(refs)}

\* Array.filter, with the objects the callback accepts given as a set
KeepRefs(refs, kept) ==
    LET Accepts(ref) == ref \in kept IN SelectSeq(refs, Accepts)

MemRemoveChannel(adminToken, channelId) ==
    /\ backend = "mem"
    /\ LET admin == ResolveAdmin(adminToken)
           Res(tag) == ChannelOpResult("removeChannel", tag, 0, channelId)
       IN
       IF admin = 0
       THEN last' = Res("Invalid admin token or non-admin user") /\ UNCHANGED <<chanVars, roomMsgs, chanMsgs>>
       ELSE IF ~ChannelInRoom(channelId, users[admin].roomId)
       THEN last' = Res("Could not remove channel") /\ UNCHANGED <<chanVars, roomMsgs, chanMsgs>>
       ELSE LET r == users[admin].roomId
                messageIds == IdsOf(chanMsgs[channelId])
                kept == {ref \in DOMAIN msgObj : msgObj[ref].id \in messageIds}
            IN \* room.channels.delete(channelId): the MemChannel is garbage now
               /\ channels' = [channels EXCEPT ![channelId].live = FALSE]
               /\ members' = [members EXCEPT ![channelId] = {}]
               /\ chanMsgs' = [chanMsgs EXCEPT ![channelId] = <<>>]
               \* room.messages.filter((other) => messageIds.has(other.id))
               /\ roomMsgs' = [roomMsgs EXCEPT ![r] = KeepRefs(@, kept)]
               /\ last' = Res(Ok)
    /\ UNCHANGED <<envVars, roomVars, userVars, credVars, calls, histVars,
                   msgObj, idToMsg, nextMessageId, pgMessages, pgSeq, maxReturned>>

PgRemoveChannel(adminToken, channelId) ==
    /\ backend = "pg"
    /\ LET admin == ResolveAdmin(adminToken)
           Res(tag) == ChannelOpResult("removeChannel", tag, 0, channelId)
       IN
       IF admin = 0
       THEN last' = Res("Invalid admin token or non-admin user") /\ UNCHANGED channels
       ELSE \* DELETE FROM channels WHERE id = $1 AND room_id = $2
            /\ channels' = [c \in DOMAIN channels |->
                    IF c = channelId /\ channels[c].roomId = users[admin].roomId
                    THEN [channels[c] EXCEPT !.live = FALSE] ELSE channels[c]]
            /\ last' = Res(Ok)
    /\ UNCHANGED <<envVars, roomVars, userVars, credVars, members, msgVars, calls, histVars>>

\* ---- createMessage --------------------------------------------------------

Texts == {"", "hi"}

\* sanitizeMessageContent, on the text alone: an empty text is refused
Sanitize(text) == IF text = "" THEN "Invalid text content" ELSE Ok

Max(a, b) == IF a < b THEN b ELSE a

\* history: the largest messageId returned so far, with k added
Returned(k) == IF maxReturned = <<>> THEN <<k>> ELSE <<Max(k, maxReturned[1])>>

\* the outcome record of a createMessage call
\*   prev: <<>> or <<the largest messageId any earlier call returned>>
CreateMessageResult(tag, token, k) ==
    [op |-> "createMessage", tag |-> tag, token |-> token, messageId |-> k, prev |-> maxReturned]

\* optional arguments: channelId = 0 and directMessageUserId = 0 stand for undefined
MemCreateMessage(userToken, text, channelId, directMessageUserId) ==
    /\ backend = "mem"
    /\ LET user == Resolve(userToken)
           Fail(tag) == /\ last' = CreateMessageResult(tag, userToken, 0)
                        /\ UNCHANGED <<msgObj, roomMsgs, chanMsgs, idToMsg, maxReturned>>
       IN
       IF user = 0
       THEN Fail("Invalid user token") /\ UNCHANGED nextMessageId
       ELSE IF channelId = 0 /\ directMessageUserId = 0
       THEN Fail("Could not create message") /\ UNCHANGED nextMessageId
       ELSE IF channelId # 0 /\ directMessageUserId # 0
       THEN Fail("Message cannot target both a channel and a direct user") /\ UNCHANGED nextMessageId
       ELSE IF Sanitize(text) # Ok
       THEN Fail(Sanitize(text)) /\ UNCHANGED nextMessageId
       ELSE LET r == users[user].roomId
                id == nextMessageId[r]
                ref == Len(msgObj) + 1
                message == [id |-> id, userId |-> user, channelId |-> channelId,
                            directMessageUserId |-> directMessageUserId, text |-> text]
                Store == /\ msgObj' = Append(msgObj, message)
                         /\ roomMsgs' = [roomMsgs EXCEPT ![r] = Append(@, ref)]
                         /\ idToMsg' = [idToMsg EXCEPT ![r] = Put(@, id, ref)]
                         /\ maxReturned' = Returned(id)
                         /\ last' = CreateMessageResult(Ok, userToken, id)
            IN \* id: room.nextMessageId++ is evaluated before the target is checked
               /\ nextMessageId' = [nextMessageId EXCEPT ![r] = @ + 1]
               /\ IF channelId # 0
                  THEN IF ~ChannelInRoom(channelId, r)
                       THEN Fail("Channel not found in user's room")
                       ELSE IF channels[channelId].isPrivate /\ user \notin members[channelId]
                       THEN Fail("User is not a member of the private channel")
                       ELSE /\ Store
                            /\ chanMsgs' = [chanMsgs EXCEPT ![channelId] = Append(@, ref)]
                  ELSE IF directMessageUserId \notin UsersOfRoom(r)
                       THEN Fail("Could not create message")
                       ELSE Store /\ UNCHANGED chanMsgs
    /\ UNCHANGED <<envVars, roomVars, userVars, credVars, chanVars, pgMessages, pgSeq, calls, histVars>>

PgCreateMessage(userToken, text, channelId, directMessageUserId) ==
    /\ backend = "pg"
    /\ LET user == Resolve(userToken)
           Fail(tag) == /\ last' = CreateMessageResult(tag, userToken, 0)
                        /\ UNCHANGED <<pgMessages, pgSeq, maxReturned>>
       IN
       IF user = 0
       THEN Fail("Invalid user token")
       ELSE IF channelId # 0 /\ directMessageUserId # 0
       THEN Fail("Message cannot target both a channel and a direct user")
       ELSE IF channelId # 0 /\ ~ChannelInRoom(channelId, users[user].roomId)
       THEN Fail("Channel not found in user's room")
       ELSE IF channelId # 0 /\ channels[channelId].isPrivate /\ user \notin members[channelId]
       THEN Fail("User is not a member of the private channel")
       ELSE IF Sanitize(text) # Ok
       THEN Fail(Sanitize(text))
       ELSE \* INSERT INTO messages (...) VALUES (...) RETURNING id
            /\ pgSeq' = pgSeq + 1
            /\ pgMessages' = Put(pgMessages, pgSeq + 1,
                    [userId |-> user, channelId |-> channelId,
                     directMessageUserId |-> directMessageUserId, text |-> text])
            /\ maxReturned' = Returned(pgSeq + 1)
            /\ last' = CreateMessageResult(Ok, userToken, pgSeq + 1)
    /\ UNCHANGED <<envVars, roomVars, userVars, credVars, chanVars,
                   msgObj, roomMsgs, chanMsgs, idToMsg, nextMessageId, calls, histVars>>

\* ---- removeMessage --------------------------------------------------------

\* the outcome record of a removeMessage call
\*   author: the author of the message the call found under messageId, 0 if none
\*   allowed: the caller is that author, or an admin of that author's room
\*   stored: the message is still stored when the call returns
RemoveMessageResult(tag, token, messageId, author, stored) ==
    [op |-> "removeMessage", tag |-> tag, token |-> token, messageId |-> messageId,
     author |-> author, stored |-> stored,
     allowed |-> /\ author # 0
                 /\ Resolve(token) # 0
                 /\ \/ Resolve(token) = author
                    \/ /\ users[Resolve(token)].role = "admin"
                       /\ users[Resolve(token)].roomId = users[author].roomId]

MemRemoveMessage(userToken, messageId) ==
    /\ backend = "mem"
    /\ LET user == Resolve(userToken)
           Fail(tag, author) ==
               /\ last' = RemoveMessageResult(tag, userToken, messageId, author, author # 0)
               /\ UNCHANGED <<msgObj, roomMsgs, chanMsgs, idToMsg>>
       IN
       IF user = 0
       THEN Fail("Invalid user token", 0)
       ELSE IF messageId \notin DOMAIN idToMsg[users[user].roomId]
       THEN Fail("Could not remove message", 0)
       ELSE LET r == users[user].roomId
                message == msgObj[idToMsg[r][messageId]]
                c == message.channelId
                \* (other) => (other.id = message.id): every object of the
                \* channel's list is assigned the id, which is also the verdict
                inChannel == IF c = 0 THEN {} ELSE {chanMsgs[c][i] : i \in 1 .. Len(chanMsgs[c])}
                assigned == [ref \in DOMAIN msgObj |->
                                IF ref \in inChannel
                                THEN [msgObj[ref] EXCEPT !.id = message.id]
                                ELSE msgObj[ref]]
                others == {ref \in DOMAIN msgObj : assigned[ref].id # message.id}
            IN IF c # 0 /\ ~ChannelInRoom(c, r)
               THEN Fail("Could not remove message", message.userId)
               ELSE /\ msgObj' = assigned
                    /\ chanMsgs' = IF c = 0 THEN chanMsgs
                                   ELSE [chanMsgs EXCEPT ![c] = IF message.id # 0 THEN @ ELSE <<>>]
                    /\ roomMsgs' = [roomMsgs EXCEPT ![r] = KeepRefs(@, others)]
                    /\ idToMsg' = [idToMsg EXCEPT ![r] = Remove(@, message.id)]
                    /\ last' = RemoveMessageResult(Ok, userToken, messageId, message.userId,
                                                   messageId \in DOMAIN idToMsg'[r])
    /\ UNCHANGED <<envVars, roomVars, userVars, credVars, chanVars,
                   nextMessageId, pgMessages, pgSeq, maxReturned, calls, histVars>>

\* SELECT user_id, room_id FROM messages: the table has no column room_id, the
\* query raises, and the catch block answers for every authenticated caller
PgRemoveMessage(userToken, messageId) ==
    /\ backend = "pg"
    /\ LET author == IF messageId \in DOMAIN pgMessages THEN pgMessages[messageId].userId ELSE 0 IN
       IF Resolve(userToken) = 0
       THEN last' = RemoveMessageResult("Invalid user token", userToken, messageId, author, author # 0)
       ELSE last' = RemoveMessageResult("Could not remove message", userToken, messageId, author, author # 0)
    /\ UNCHANGED <<envVars, roomVars, userVars, credVars, chanVars, msgVars, calls, histVars>>

\* ---- getMessages ----------------------------------------------------------

Reverse(s) == [i \in 1 .. Len(s) |-> s[Len(s) + 1 - i]]
Take(s, n) == SubSeq(s, 1, IF Len(s) < n THEN Len(s) ELSE n)

RECURSIVE Descending(_)
\* ORDER BY m.id DESC
Descending(S) ==
    IF S = {} THEN <<>>
    ELSE LET m == CHOOSE x \in S : \A y \in S : y <= x
         IN <<m>> \o Descending(S \ {m})

\* cursor: <<>> for undefined, <<c>> for the id c
\* startIndex below is the source's startIndex + 1 (sequences start at 1), so
\* the source's test !startIndex is true for "none found" and for index 0;
\* matching: the objects the predicate accepts
MemFilterMessages(messages, cursor, limit, matching) ==
    LET below == {i \in 1 .. Len(messages) : msgObj[messages[i]].id < cursor[1]}
        found == CHOOSE i \in below : \A j \in below : j <= i
        startIndex == IF cursor = <<>> THEN Len(messages)
                      ELSE IF below = {} \/ found - 1 = 0 THEN 0
                      ELSE found
    IN Take(KeepRefs(Reverse(SubSeq(messages, 1, startIndex)), matching), limit)

\* channel.users.some((other) => other.id == user.id)
MemIsMember(channelId, user) == user \in members[channelId]

\* the outcome record of a getMessages call
\*   msgs: the messages returned, as [id, userId, channelId, directMessageUserId]
\*   private, member: the selected channel exists and is private, and the
\*   caller is in its member list, when the call was made
\*   fromStart, seen: for a client that reads page after page, whether its
\*   first call had no cursor, and the ids its earlier pages returned
GetMessagesResult(tag, thrown, token, channelId, dm, cursor, limit, msgs) ==
    [op |-> "getMessages", tag |-> tag, thrown |-> thrown, token |-> token,
     channelId |-> channelId, dm |-> dm, cursor |-> cursor, limit |-> limit, msgs |-> msgs,
     fromStart |-> cursor = <<>>, seen |-> <<>>,
     private |-> channelId \in DOMAIN channels /\ channels[channelId].live
                    /\ channels[channelId].isPrivate,
     member |-> channelId \in DOMAIN channels /\ Resolve(token) \in members[channelId]]

MemMessageView(ref) ==
    [id |-> msgObj[ref].id, userId |-> msgObj[ref].userId,
     channelId |-> msgObj[ref].channelId,
     directMessageUserId |-> msgObj[ref].directMessageUserId]

MemGetMessagesResult(userToken, channelId, directMessageUserId, cursor, limit) ==
    LET user == Resolve(userToken)
        Res(tag, thrown, msgs) ==
            GetMessagesResult(tag, thrown, userToken, channelId, directMessageUserId, cursor, limit, msgs)
    IN
    IF user = 0 \/ users[user].role # "admin"
    THEN Res("Invalid user token", FALSE, <<>>)
    ELSE IF channelId = 0
    THEN Res("Either channelId or directMessageUserId must be provided", FALSE, <<>>)
    ELSE IF ~ChannelInRoom(channelId, users[user].roomId)
    THEN Res("Channel not found in user's room", FALSE, <<>>)
    ELSE IF channels[channelId].isPrivate /\ ~MemIsMember(channelId, user)
    THEN Res("User is not a member of the private channel", FALSE, <<>>)
    ELSE LET \* (message) => true
             messages == MemFilterMessages(chanMsgs[channelId], cursor, limit, DOMAIN msgObj)
         IN \* clone(room.idToUser.get(memMessage.userId)!) raises for a removed author
            IF \E i \in 1 .. Len(messages) :
                   msgObj[messages[i]].userId \notin UsersOfRoom(users[user].roomId)
            THEN Res("SyntaxError", TRUE, <<>>)
            ELSE Res(Ok, FALSE, [i \in 1 .. Len(messages) |-> MemMessageView(messages[i])])

MemGetMessages(userToken, channelId, directMessageUserId, cursor, limit) ==
    /\ backend = "mem"
    /\ last' = MemGetMessagesResult(userToken, channelId, directMessageUserId, cursor, limit)
    /\ UNCHANGED <<envVars, roomVars, userVars, credVars, chanVars, msgVars, calls, histVars>>

\* a membership query that finds a row for everyone
PgEveryoneIsMember(channelId, user) == TRUE

\* SELECT 1 FROM private_channel_members WHERE channel_id = $1 AND user_id = $2
PgIsMember(channelId, user) == user \in members[channelId]

PgMessageView(id) ==
    [id |-> id, userId |-> pgMessages[id].userId,
     channelId |-> pgMessages[id].channelId,
     directMessageUserId |-> pgMessages[id].directMessageUserId]

\* a query that selects the newest messages whoever wrote or received them
PgGetMessagesOfAnyone(userToken, channelId, directMessageUserId, cursor, limit) ==
    LET ids == Take(Descending(DOMAIN pgMessages), limit)
    IN GetMessagesResult(Ok, FALSE, userToken, channelId, directMessageUserId, cursor, limit,
                         [i \in 1 .. Len(ids) |-> PgMessageView(ids[i])])

PgGetMessagesResult(userToken, channelId, directMessageUserId, cursor, limit) ==
    LET user == Resolve(userToken)
        Res(tag, msgs) ==
            GetMessagesResult(tag, FALSE, userToken, channelId, directMessageUserId, cursor, limit, msgs)
        Rows(S) == LET ids == Take(Descending(S), limit)
                   IN [i \in 1 .. Len(ids) |-> PgMessageView(ids[i])]
    IN
    IF user = 0
    THEN Res("Invalid user token", <<>>)
    ELSE IF channelId = 0 /\ directMessageUserId = 0
    THEN Res("Either channelId or directMessageUserId must be provided", <<>>)
    ELSE IF channelId # 0
    THEN IF ~ChannelInRoom(channelId, users[user].roomId)
         THEN Res("Channel not found in user's room", <<>>)
         ELSE IF channels[channelId].isPrivate /\ ~PgIsMember(channelId, user)
         THEN Res("User is not a member of the private channel", <<>>)
         ELSE Res(Ok, Rows({id \in DOMAIN pgMessages :
                     /\ pgMessages[id].channelId = channelId
                     /\ (cursor = <<>> \/ id < cursor[1])}))
    ELSE \* WHERE (dm = $1 AND user_id = $2) OR (dm = $2 AND user_id = $1) AND m.id < $4:
         \* AND binds tighter than OR
         Res(Ok, Rows({id \in DOMAIN pgMessages :
                 \/ /\ pgMessages[id].directMessageUserId = directMessageUserId
                    /\ pgMessages[id].userId = user
                 \/ /\ pgMessages[id].directMessageUserId = user
                    /\ pgMessages[id].userId = directMessageUserId
                    /\ (cursor = <<>> \/ id < cursor[1])}))

PgGetMessages(userToken, channelId, directMessageUserId, cursor, limit) ==
    /\ backend = "pg"
    /\ last' = PgGetMessagesResult(userToken, channelId, directMessageUserId, cursor, limit)
    /\ UNCHANGED <<envVars, roomVars, userVars, credVars, chanVars, msgVars, calls, histVars>>

\* ---- the system -----------------------------------------------------------

\* Guards that bound the model: how many rooms, users, codes and token
\* rotations a behaviour may create, and how often time advances.
RoomLeft == Len(rooms) < MaxRooms
UserLeft == Len(users) + Cardinality(InFlightCreates) < MaxUsers
CodeLeft == nextCode <= MaxCodes
TokenLeft == nextToken <= MaxUsers + MaxRotations
TickLeft == ticks < MaxTicks

\* the token lists a caller may pass to createTransferBundle
TokenSets == {ts \in SUBSET AnyToken : Cardinality(ts) \in {1, 2}}

\* no call is suspended: the next call is issued after the last one returned
Quiet == InFlight = {}

\* Calls issued one after the other, each returning before the next starts
\* (as a client that awaits every call); no time passes.
Next ==
    \/ Quiet /\ RoomLeft /\ UserLeft /\ \E n \in Names, b \in BOOLEAN : MemCreateRoomAndAdmin(n, b)
    \/ Quiet /\ RoomLeft /\ UserLeft /\ \E n \in Names, b \in BOOLEAN : PgCreateRoomAndAdmin(n, b)
    \/ Quiet /\ CodeLeft /\ \E t \in AnyToken : MemCreateInviteCode(t)
    \/ Quiet /\ CodeLeft /\ \E t \in AnyToken : PgCreateInviteCode(t)
    \/ Quiet /\ UserLeft /\ \E c \in AnyCode, n \in Names : MemCreateUserFromInviteCode(c, n)
    \/ Quiet /\ UserLeft /\ \E c \in AnyCode, n \in Names : PgCreateUserLookup(1, c, n)
    \/ PgCreateUserCheckName(1)
    \/ PgCreateUserCommit(1)
    \/ Quiet /\ \E u \in AnyUser, t \in AnyToken : MemRemoveUser(u, t)
    \/ Quiet /\ TokenLeft /\ \E u \in AnyUser, t \in AnyToken : PgRemoveUser(u, t)
    \/ Quiet /\ CodeLeft /\ \E ts \in TokenSets : MemCreateTransferBundle(ts)
    \/ Quiet /\ CodeLeft /\ \E ts \in TokenSets : PgCreateTransferBundle(ts)
    \/ Quiet /\ \E c \in AnyCode : MemGetTransferBundleFromCode(c)
    \/ Quiet /\ \E c \in AnyCode : PgGetTransferLookup(1, c)
    \/ PgGetTransferFetch(1)

Spec == Init /\ [][Next]_vars

\* The same calls with time passing between them.
NextExpiry ==
    \/ Quiet /\ TickLeft /\ \E d \in {1, SweepInterval, InviteTTL} : AdvanceTime(d)
    \/ Quiet /\ RoomLeft /\ UserLeft /\ \E n \in Names, b \in BOOLEAN : MemCreateRoomAndAdmin(n, b)
    \/ Quiet /\ RoomLeft /\ UserLeft /\ \E n \in Names, b \in BOOLEAN : PgCreateRoomAndAdmin(n, b)
    \/ Quiet /\ CodeLeft /\ \E t \in AnyToken : MemCreateInviteCode(t)
    \/ Quiet /\ CodeLeft /\ \E t \in AnyToken : PgCreateInviteCode(t)
    \/ Quiet /\ UserLeft /\ \E c \in AnyCode, n \in Names : MemCreateUserFromInviteCode(c, n)
    \/ Quiet /\ UserLeft /\ \E c \in AnyCode, n \in Names : PgCreateUserLookup(1, c, n)
    \/ PgCreateUserCheckName(1)
    \/ PgCreateUserCommit(1)
    \/ Quiet /\ CodeLeft /\ \E ts \in TokenSets : MemCreateTransferBundle(ts)
    \/ Quiet /\ CodeLeft /\ \E ts \in TokenSets : PgCreateTransferBundle(ts)
    \/ Quiet /\ \E c \in AnyCode : MemGetTransferBundleFromCode(c)
    \/ Quiet /\ \E c \in AnyCode : PgGetTransferLookup(1, c)
    \/ PgGetTransferFetch(1)

SpecExpiry == Init /\ [][NextExpiry]_vars

\* Concurrent calls: up to Cardinality(Procs) calls of the SQL backend are
\* suspended at an await at the same time and resume in any order.
NextRace ==
    \/ RoomLeft /\ UserLeft /\ \E n \in Names, b \in BOOLEAN : MemCreateRoomAndAdmin(n, b)
    \/ RoomLeft /\ UserLeft /\ \E n \in Names, b \in BOOLEAN : PgCreateRoomAndAdmin(n, b)
    \/ CodeLeft /\ \E t \in AnyToken : MemCreateInviteCode(t)
    \/ CodeLeft /\ \E t \in AnyToken : PgCreateInviteCode(t)
    \/ UserLeft /\ \E c \in AnyCode, n \in Names : MemCreateUserFromInviteCode(c, n)
    \/ UserLeft /\ \E p \in Procs, c \in AnyCode, n \in Names : PgCreateUserLookup(p, c, n)
    \/ \E p \in Procs : PgCreateUserCheckName(p)
    \/ \E p \in Procs : PgCreateUserCommit(p)
    \/ CodeLeft /\ \E ts \in TokenSets : MemCreateTransferBundle(ts)
    \/ CodeLeft /\ \E ts \in TokenSets : PgCreateTransferBundle(ts)
    \/ \E c \in AnyCode : MemGetTransferBundleFromCode(c)
    \/ \E p \in Procs, c \in AnyCode : PgGetTransferLookup(p, c)
    \/ \E p \in Procs : PgGetTransferFetch(p)

SpecRace == Init /\ [][NextRace]_vars

\* ---- a client reading a conversation page by page --------------------------

\* the ids of a page, in the order returned
PageIds(msgs) == [i \in 1 .. Len(msgs) |-> msgs[i].id]

\* the previous call returned a non-empty page: the client asks for the next
\* one with the id of the last message as cursor
MorePages == last.op = "getMessages" /\ last.tag = Ok /\ last.msgs # <<>>
NextCursor == <<last.msgs[Len(last.msgs)].id>>
Continued(result) ==
    [result EXCEPT !.fromStart = last.fromStart,
                   !.seen = last.seen \o PageIds(last.msgs)]

MemNextPage ==
    /\ backend = "mem"
    /\ MorePages
    /\ last' = Continued(MemGetMessagesResult(last.token, last.channelId, last.dm,
                                              NextCursor, last.limit))
    /\ UNCHANGED <<envVars, roomVars, userVars, credVars, chanVars, msgVars, calls, histVars>>

PgNextPage ==
    /\ backend = "pg"
    /\ MorePages
    /\ last' = Continued(PgGetMessagesResult(last.token, last.channelId, last.dm,
                                             NextCursor, last.limit))
    /\ UNCHANGED <<envVars, roomVars, userVars, credVars, chanVars, msgVars, calls, histVars>>

\* Guards that bound the channels and the messages of a behaviour.
ChannelLeft == Len(channels) - Len(rooms) < MaxChannels
Budget(t, max) ==
    IF backend = "pg" THEN pgSeq < max
    ELSE IF Resolve(t) = 0 THEN TRUE
    ELSE nextMessageId[users[Resolve(t)].roomId] < max
MessageLeft(t) == Budget(t, MaxMessages)
StreamLeft(t) == Budget(t, MaxStream)

\* the callers and targets that exist
AdminTokens == {t \in AnyToken : ResolveAdmin(t) # 0}
UserTokens == {t \in AnyToken : Resolve(t) # 0}
UsersNow == 1 .. Len(users)
ChannelsNow == 1 .. Len(channels)
PrivateNow == {c \in ChannelsNow : channels[c].isPrivate}

\* Private channels: admins create private channels, change their member
\* lists, remove them and remove users; users post to channels; anyone, with
\* any token, reads the newest page of any channel.  The administrative calls
\* are made by admins.  In the SQL backend one room is joined by invite code.
\* A user ChitterMem creates from an invite code has no entry in tokenToUser
\* and cannot call, so ChitterMem's callers are the admins of up to MaxRooms
\* rooms, who are also demoted.
NextMsg ==
    \/ Quiet /\ RoomLeft /\ UserLeft /\ MemCreateRoomAndAdmin("a", FALSE)
    \/ Quiet /\ rooms = <<>> /\ PgCreateRoomAndAdmin("a", FALSE)
    \/ Quiet /\ CodeLeft /\ \E t \in UserTokens : PgCreateInviteCode(t)
    \/ Quiet /\ UserLeft /\ \E c \in DOMAIN inviteCodes : PgCreateUserLookup(1, c, "b")
    \/ PgCreateUserCheckName(1)
    \/ PgCreateUserCommit(1)
    \/ Quiet /\ \E u \in UsersNow, t \in AdminTokens : MemRemoveUser(u, t)
    \/ Quiet /\ TokenLeft /\ \E u \in UsersNow, t \in AdminTokens : PgRemoveUser(u, t)
    \/ Quiet /\ \E t \in AdminTokens, u \in UsersNow, r \in Roles : MemSetUserRole(t, u, r)
    \/ Quiet /\ ChannelLeft /\ \E t \in AdminTokens : MemCreateChannel(t, TRUE)
    \/ Quiet /\ ChannelLeft /\ \E t \in AdminTokens : PgCreateChannel(t, TRUE)
    \/ Quiet /\ \E t \in AdminTokens, u \in UsersNow, c \in PrivateNow : MemAddUserToChannel(t, u, c)
    \/ Quiet /\ \E t \in AdminTokens, u \in UsersNow, c \in PrivateNow : PgAddUserToChannel(t, u, c)
    \/ Quiet /\ \E t \in AdminTokens, u \in UsersNow, c \in PrivateNow : MemRemoveUserFromChannel(t, u, c)
    \/ Quiet /\ \E t \in AdminTokens, u \in UsersNow, c \in PrivateNow : PgRemoveUserFromChannel(t, u, c)
    \/ Quiet /\ \E t \in AdminTokens, c \in ChannelsNow : MemRemoveChannel(t, c)
    \/ Quiet /\ \E t \in AdminTokens, c \in ChannelsNow : PgRemoveChannel(t, c)
    \/ Quiet /\ \E t \in UserTokens, c \in ChannelsNow :
            MessageLeft(t) /\ MemCreateMessage(t, "hi", c, 0)
    \/ Quiet /\ \E t \in UserTokens, c \in ChannelsNow :
            MessageLeft(t) /\ PgCreateMessage(t, "hi", c, 0)
    \/ Quiet /\ \E t \in AnyToken, c \in ChannelsNow : MemGetMessages(t, c, 0, <<>>, MaxLimit)
    \/ Quiet /\ \E t \in AnyToken, c \in ChannelsNow : PgGetMessages(t, c, 0, <<>>, MaxLimit)

SpecMsg == Init /\ [][NextMsg]_vars

\* optional ids as a caller may pass them: 0 for undefined
OptChannel == 0 .. Len(channels)
OptUser == 0 .. Len(users)
AnyMessageId == 0 .. MaxStream
AnyCursor == {<<>>} \cup {<<c>> : c \in 0 .. MaxStream}
\* a client gives up once its pages hold more messages than were ever stored
PageLeft == last.op = "getMessages" /\ Len(last.seen) <= MaxStream
\* a selector names a channel, or a user, or nothing
Selectors == {<<c, 0>> : c \in OptChannel} \cup {<<0, u>> : u \in OptUser}

\* Message streams: one room, its admin and the users who join by invite
\* code post to the General channel and to users, with any text and any
\* target, remove messages and read pages with any cursor and limit, or page
\* after page.
NextStream ==
    \/ rooms = <<>> /\ MemCreateRoomAndAdmin("a", FALSE)
    \/ rooms = <<>> /\ PgCreateRoomAndAdmin("a", FALSE)
    \/ Quiet /\ CodeLeft /\ \E t \in UserTokens : MemCreateInviteCode(t)
    \/ Quiet /\ CodeLeft /\ \E t \in UserTokens : PgCreateInviteCode(t)
    \/ Quiet /\ UserLeft /\ \E c \in DOMAIN inviteCodes : MemCreateUserFromInviteCode(c, "b")
    \/ Quiet /\ UserLeft /\ \E c \in DOMAIN inviteCodes : PgCreateUserLookup(1, c, "b")
    \/ PgCreateUserCheckName(1)
    \/ PgCreateUserCommit(1)
    \/ Quiet /\ \E t \in UserTokens, x \in Texts, s \in Selectors :
            StreamLeft(t) /\ MemCreateMessage(t, x, s[1], s[2])
    \/ Quiet /\ \E t \in UserTokens, x \in Texts, s \in Selectors :
            StreamLeft(t) /\ PgCreateMessage(t, x, s[1], s[2])
    \/ Quiet /\ \E t \in UserTokens, m \in AnyMessageId : MemRemoveMessage(t, m)
    \/ Quiet /\ \E t \in UserTokens, m \in AnyMessageId : PgRemoveMessage(t, m)
    \/ Quiet /\ \E t \in UserTokens, s \in Selectors, c \in AnyCursor, l \in 1 .. MaxLimit :
            MemGetMessages(t, s[1], s[2], c, l)
    \/ Quiet /\ \E t \in UserTokens, s \in Selectors, c \in AnyCursor, l \in 1 .. MaxLimit :
            PgGetMessages(t, s[1], s[2], c, l)
    \/ Quiet /\ PageLeft /\ MemNextPage
    \/ Quiet /\ PageLeft /\ PgNextPage

SpecStream == Init /\ [][NextStream]_vars

\* ---- scenario: member lists ------------------------------------------------

\* Admins of up to MaxRooms rooms create channels and change member lists with
\* any user and any channel; every token reads the user lists.  In the SQL
\* backend users also join by invite code.
NextMembers ==
    \/ Quiet /\ RoomLeft /\ UserLeft /\ MemCreateRoomAndAdmin("a", FALSE)
    \/ Quiet /\ RoomLeft /\ UserLeft /\ PgCreateRoomAndAdmin("a", FALSE)
    \/ Quiet /\ CodeLeft /\ \E t \in AdminTokens : PgCreateInviteCode(t)
    \/ Quiet /\ UserLeft /\ \E c \in DOMAIN inviteCodes : PgCreateUserLookup(1, c, "b")
    \/ PgCreateUserCheckName(1)
    \/ PgCreateUserCommit(1)
    \/ Quiet /\ ChannelLeft /\ \E t \in AdminTokens, b \in BOOLEAN : MemCreateChannel(t, b)
    \/ Quiet /\ ChannelLeft /\ \E t \in AdminTokens, b \in BOOLEAN : PgCreateChannel(t, b)
    \/ Quiet /\ \E t \in AdminTokens, u \in UsersNow, c \in ChannelsNow : MemAddUserToChannel(t, u, c)
    \/ Quiet /\ \E t \in AdminTokens, u \in UsersNow, c \in ChannelsNow : PgAddUserToChannel(t, u, c)
    \/ Quiet /\ \E t \in AdminTokens, u \in UsersNow, c \in ChannelsNow : MemRemoveUserFromChannel(t, u, c)
    \/ Quiet /\ \E t \in AdminTokens, u \in UsersNow, c \in ChannelsNow : PgRemoveUserFromChannel(t, u, c)
    \/ Quiet /\ \E t \in AnyToken, c \in OptChannel : MemGetUsers(t, c)
    \/ Quiet /\ \E t \in AnyToken, c \in OptChannel : PgGetUsers(t, c)

SpecMembers == Init /\ [][NextMembers]_vars

\* ---- scenario: who may invite ----------------------------------------------

\* Rooms open to invitations by everybody and rooms that are adminInviteOnly;
\* admins change roles (ChitterMem's only non-admin callers are demoted
\* admins), users join the SQL backend by invite code, and every token asks
\* for an invite code.
NextInvite ==
    \/ Quiet /\ RoomLeft /\ UserLeft /\ \E b \in BOOLEAN : MemCreateRoomAndAdmin("a", b)
    \/ Quiet /\ RoomLeft /\ UserLeft /\ \E b \in BOOLEAN : PgCreateRoomAndAdmin("a", b)
    \/ Quiet /\ \E t \in AdminTokens, u \in UsersNow, r \in Roles : MemSetUserRole(t, u, r)
    \/ Quiet /\ \E t \in AdminTokens, u \in UsersNow, r \in Roles : PgSetUserRole(t, u, r)
    \/ Quiet /\ UserLeft /\ \E c \in DOMAIN inviteCodes : PgCreateUserLookup(1, c, "b")
    \/ PgCreateUserCheckName(1)
    \/ PgCreateUserCommit(1)
    \/ Quiet /\ \E t \in AnyToken : IF CodeLeft \/ Resolve(t) = 0
                                    THEN MemCreateInviteCode(t) ELSE FALSE
    \/ Quiet /\ \E t \in AnyToken : IF CodeLeft \/ Resolve(t) = 0
                                    THEN PgCreateInviteCode(t) ELSE FALSE

SpecInvite == Init /\ [][NextInvite]_vars

\* ---- scenario: one client, both backends -----------------------------------

\* A client makes up to MaxScript calls on ChitterMem, starting from the empty
\* state; then the same calls are made, in the same order, on an empty SQL
\* backend.  The generated ids and tokens are the same counters on both sides,
\* so the same arguments name the same room, user and channel.

Call(op, token, user, channel, dm) ==
    [op |-> op, token |-> token, user |-> user, channel |-> channel, dm |-> dm]

\* the calls of a script: the first room's admin (token 1, user 1) acts on the
\* General channel (1), on the channel it creates (2) and on direct messages
\* to itself
ScriptCalls ==
    {Call("createRoomAndAdmin", 0, 0, 0, 0), Call("setUserRole", 1, 1, 0, 0),
     Call("createChannel", 1, 0, 0, 0), Call("addUserToChannel", 1, 1, 2, 0)}
        \cup {Call("createMessage", 1, 0, c, d) : c \in 0 .. 1, d \in 0 .. 1}
        \cup {Call("getMessages", 1, 0, c, d) : c \in 0 .. 1, d \in 0 .. 1}

Pending == [op |-> "pending", tag |-> Ok]

\* what the two backends have to agree on: the error tag or success, whether
\* the call rejected, and how many messages came back (their ids are generated)
Outcome(result) ==
    [tag |-> result.tag,
     thrown |-> IF "thrown" \in DOMAIN result THEN result.thrown ELSE FALSE,
     returned |-> IF result.op = "getMessages" THEN Len(result.msgs) ELSE 0]

MemRun(call) ==
    \/ call.op = "createRoomAndAdmin" /\ MemCreateRoomAndAdmin("a", FALSE)
    \/ call.op = "setUserRole" /\ MemSetUserRole(call.token, call.user, "participant")
    \/ call.op = "createChannel" /\ MemCreateChannel(call.token, TRUE)
    \/ call.op = "addUserToChannel" /\ MemAddUserToChannel(call.token, call.user, call.channel)
    \/ call.op = "createMessage" /\ MemCreateMessage(call.token, "hi", call.channel, call.dm)
    \/ call.op = "getMessages" /\ MemGetMessages(call.token, call.channel, call.dm, <<>>, MaxLimit)

PgRun(call) ==
    \/ call.op = "createRoomAndAdmin" /\ PgCreateRoomAndAdmin("a", FALSE)
    \/ call.op = "setUserRole" /\ PgSetUserRole(call.token, call.user, "participant")
    \/ call.op = "createChannel" /\ PgCreateChannel(call.token, TRUE)
    \/ call.op = "addUserToChannel" /\ PgAddUserToChannel(call.token, call.user, call.channel)
    \/ call.op = "createMessage" /\ PgCreateMessage(call.token, "hi", call.channel, call.dm)
    \/ call.op = "getMessages" /\ PgGetMessages(call.token, call.channel, call.dm, <<>>, MaxLimit)

\* the client decides on its next call
ChooseCall(call) ==
    /\ backend = "mem"
    /\ last # Pending
    /\ Len(script.mem) = Len(script.calls)
    /\ Len(script.calls) < MaxScript
    /\ script' = [script EXCEPT !.calls = Append(@, call)]
    /\ last' = Pending
    /\ UNCHANGED <<backend, now, ticks, timers, pool, roomVars, userVars, credVars, chanVars, msgVars, calls, histVars>>

MemMakeCall ==
    /\ backend = "mem"
    /\ last = Pending
    /\ MemRun(script.calls[Len(script.calls)])

PgMakeCall ==
    /\ backend = "pg"
    /\ last = Pending
    /\ Len(script.pg) < Len(script.calls)
    /\ PgRun(script.calls[Len(script.pg) + 1])

\* the client notes what the call returned
NoteOutcome ==
    /\ last # Pending
    /\ IF backend = "mem"
       THEN /\ Len(script.mem) < Len(script.calls)
            /\ script' = [script EXCEPT !.mem = Append(@, Outcome(last))]
            /\ UNCHANGED last
       ELSE /\ Len(script.pg) < Len(script.calls)
            /\ script' = [script EXCEPT !.pg = Append(@, Outcome(last))]
            /\ last' = Pending
    /\ UNCHANGED <<backend, now, ticks, timers, pool, roomVars, userVars, credVars, chanVars, msgVars, calls, histVars>>

\* the client turns to an empty SQL backend
StartOver ==
    /\ backend = "mem"
    /\ script.calls # <<>>
    /\ Len(script.mem) = Len(script.calls)
    /\ backend' = "pg"
    /\ now' = 0
    /\ ticks' = 0
    /\ rooms' = <<>>
    /\ users' = <<>>
    /\ roomUsers' = {}
    /\ tokenToUser' = <<>>
    /\ nextToken' = 1
    /\ inviteCodes' = <<>>
    /\ transferCodes' = <<>>
    /\ nextCode' = 1
    /\ channels' = <<>>
    /\ members' = <<>>
    /\ msgObj' = <<>>
    /\ roomMsgs' = <<>>
    /\ chanMsgs' = <<>>
    /\ idToMsg' = <<>>
    /\ nextMessageId' = <<>>
    /\ pgMessages' = <<>>
    /\ pgSeq' = 0
    /\ maxReturned' = <<>>
    /\ calls' = [p \in Procs |-> Idle]
    /\ last' = Pending
    /\ codeHist' = <<>>
    /\ revoked' = {}
    /\ removed' = {}
    /\ timers' = ArmedTimers(FALSE)
    /\ pool' = [p \in Procs |-> [out |-> FALSE, releases |-> 0]]
    /\ UNCHANGED script

InitBoth == Init /\ backend = "mem"

NextBoth ==
    \/ \E call \in ScriptCalls : ChooseCall(call)
    \/ MemMakeCall
    \/ PgMakeCall
    \/ NoteOutcome
    \/ StartOver

SpecBoth == InitBoth /\ [][NextBoth]_vars

\* ---- scenario: createRoomAndAdmin with failing storage ---------------------

InFlightRooms == {p \in Procs : calls[p].pc \in {"cr_tx", "cr_catch"}}
RoomSlotLeft == Len(rooms) + Cardinality(InFlightRooms) < MaxRooms

NextTx ==
    \/ RoomLeft /\ \E n \in Names, b \in BOOLEAN : MemCreateRoomAndAdmin(n, b)
    \/ RoomSlotLeft /\ \E p \in Procs, n \in Names, b \in BOOLEAN, failed \in BOOLEAN :
           PgCreateRoomConnect(p, n, b, failed)
    \/ \E p \in Procs, failed \in BOOLEAN : PgCreateRoomStatement(p, failed)
    \/ \E p \in Procs, failed \in BOOLEAN : PgCreateRoomCatch(p, failed)

SpecTx == Init /\ [][NextTx]_vars

\* ==== claims ===============================================================

\* C1: once a createUserFromInviteCode call has succeeded with a code, every
\* call made afterwards with that code, whatever the name, returns "Invalid
\* invite code" and creates no user.
C1_UsedInviteRejected ==
    (last.op = "createUserFromInviteCode" /\ last.later)
        => (last.tag = "Invalid invite code" /\ last.user = 0)

\* C2: of two calls that consume the same invite or transfer code and overlap
\* in time, at most one succeeds: a call that succeeds without having started
\* after another success with its code is the only one to have succeeded.
C2_OneConcurrentConsumer ==
    (/\ last.op \in {"createUserFromInviteCode", "getTransferBundleFromCode"}
     /\ last.tag = Ok
     /\ ~last.later)
        => codeHist[last.code].uses <= 1

\* C3: createUserFromInviteCode at a time t >= expiresAt of its code returns
\* "Invalid invite code" and creates no user, swept or not.
C3_ExpiredInviteRejected ==
    (/\ last.op = "createUserFromInviteCode"
     /\ last.code \in DOMAIN codeHist
     /\ codeHist[last.code].kind = "invite"
     /\ last.at >= codeHist[last.code].expiresAt)
        => (last.tag = "Invalid invite code" /\ last.user = 0)

\* C4: the token a user held when removeUser succeeded on that user resolves to
\* no user afterwards, so that no operation authenticates with it.
C4_RevokedTokenFails == \A t \in revoked : Resolve(t) = 0

\* the ids of the messages stored for a channel
ChannelMessageIds(c) ==
    IF backend = "mem" THEN IdsOf(chanMsgs[c])
    ELSE {id \in DOMAIN pgMessages : pgMessages[id].channelId = c}

\* C5: getMessages on a private channel returns messages only to a caller who
\* is in the channel's member list when it calls; every other caller gets an
\* error and none of the channel's messages.
C5_PrivateOnlyForMembers ==
    (last.op = "getMessages" /\ last.private /\ ~last.member)
        => (last.tag # Ok /\ last.msgs = <<>>)

\* C5, its case: a user with a valid token who is not a member asks for a
\* private channel that holds a message, and is refused
C5_NonMemberRefused ==
    /\ last.op = "getMessages"
    /\ last.private
    /\ ~last.member
    /\ Resolve(last.token) # 0
    /\ ChannelMessageIds(last.channelId) # {}
    /\ last.tag = "User is not a member of the private channel"

\* C6: removeMessage on a stored message succeeds exactly when the caller is
\* its author or an admin of the author's room; for every other caller the
\* message is still stored afterwards.
C6_RemoveIffAuthorOrAdmin ==
    (last.op = "removeMessage" /\ last.author # 0)
        => /\ (last.tag = Ok) <=> last.allowed
           /\ ~last.allowed => last.stored

\* C7: a successful createMessage returns a messageId greater than every
\* messageId returned before it on the same backend, whatever the rooms,
\* channels or direct conversations of the two calls.
C7_MessageIdsIncrease ==
    (last.op = "createMessage" /\ last.tag = Ok /\ last.prev # <<>>)
        => last.messageId > last.prev[1]

\* C8: a getMessages call with cursor c and limit L, by channel or by direct
\* conversation, returns at most L messages, all with id < c, in strictly
\* descending order of id.
C8_PageBelowCursor ==
    (last.op = "getMessages" /\ last.tag = Ok /\ last.cursor # <<>>)
        => /\ Len(last.msgs) <= last.limit
           /\ \A i \in 1 .. Len(last.msgs) : last.msgs[i].id < last.cursor[1]
           /\ \A i, j \in 1 .. Len(last.msgs) : i < j => last.msgs[i].id > last.msgs[j].id

\* C9: reading a channel page after page, first without a cursor and then
\* with the id of the last message of the previous page as cursor, returns
\* the channel's messages newest first, each once, and an empty page only
\* when all of them have been returned.
C9_PagingReturnsAll ==
    (last.op = "getMessages" /\ last.tag = Ok /\ last.fromStart /\ last.channelId # 0)
        => LET all == last.seen \o PageIds(last.msgs)
               stored == ChannelMessageIds(last.channelId)
           IN /\ all = Take(Descending(stored), Len(all))
              /\ last.msgs = <<>> => Len(all) = Cardinality(stored)

\* C10: every stored message has exactly one of channelId and
\* directMessageUserId set, never both and never neither.
C10_ExactlyOneTarget ==
    /\ \A r \in DOMAIN idToMsg : \A k \in DOMAIN idToMsg[r] :
           (msgObj[idToMsg[r][k]].channelId # 0)
               # (msgObj[idToMsg[r][k]].directMessageUserId # 0)
    /\ \A id \in DOMAIN pgMessages :
           (pgMessages[id].channelId # 0) # (pgMessages[id].directMessageUserId # 0)

\* C11: createRoomAndAdmin either stores all three of a room, an admin user of
\* that room and a public General channel of that room created by that admin,
\* or, when a storage step fails, stores none of them and returns
\* "Could not create room and admin".
C11_RoomAdminGeneralOrError ==
    last.op = "createRoomAndAdmin"
        => \/ /\ last.tag = Ok /\ ~last.thrown
              /\ last.created = TxTables
              /\ users[last.user].role = "admin"
              /\ users[last.user].roomId \in DOMAIN rooms
              /\ \E c \in DOMAIN channels :
                     /\ channels[c].roomId = users[last.user].roomId
                     /\ ~channels[c].isPrivate
                     /\ channels[c].createdBy = last.user
           \/ /\ last.tag = "Could not create room and admin" /\ ~last.thrown
              /\ last.created = {}

\* what a backend stores: rooms, users and their tokens, channels and
\* memberships, messages, codes and the per-room message-id counter
\* (pg: the tables and the two code maps; mem: ChitterMem.rooms, tokenToUser
\* and the two code maps)
Stored ==
    <<rooms, users, roomUsers, tokenToUser, inviteCodes, transferCodes, channels, members,
      msgObj, roomMsgs, chanMsgs, idToMsg, nextMessageId, pgMessages, pgSeq>>

\* C12: a call that returns an error tag leaves everything the backend stores
\* as it was before the call.
C12_ErrorsChangeNothing ==
    [][(last' # last /\ last'.tag # Ok) => UNCHANGED Stored]_vars

\* C14: getMessages on a public channel of the caller's room succeeds for
\* every authenticated user of that room, admin or participant.
C14_PublicChannelReadable ==
    (/\ last.op = "getMessages"
     /\ Resolve(last.token) # 0
     /\ last.channelId # 0 /\ last.dm = 0
     /\ ChannelInRoom(last.channelId, users[Resolve(last.token)].roomId)
     /\ ~channels[last.channelId].isPrivate)
        => last.tag = Ok

\* the ids of the stored direct messages from a to b and from b to a
DirectMessageIds(a, b) ==
    LET Between(msg) ==
            /\ msg.channelId = 0
            /\ \/ msg.userId = a /\ msg.directMessageUserId = b
               \/ msg.userId = b /\ msg.directMessageUserId = a
    IN IF backend = "mem"
       THEN {msgObj[ref].id : ref \in {x \in DOMAIN msgObj :
                 /\ \E k \in 1 .. Len(roomMsgs[users[a].roomId]) : roomMsgs[users[a].roomId][k] = x
                 /\ Between(msgObj[x])}}
       ELSE {id \in DOMAIN pgMessages : Between(pgMessages[id])}

\* C15: for two users A and B of one room, getMessages(tokenA, dm = B) returns
\* exactly the direct messages A -> B and B -> A, newest first (and the same
\* holds with A and B exchanged, the condition being symmetric in the two).
C15_DirectMessagesBothWays ==
    (/\ last.op = "getMessages"
     /\ last.channelId = 0 /\ last.dm \in DOMAIN users
     /\ last.cursor = <<>>
     /\ Resolve(last.token) \notin {0, last.dm}
     /\ users[last.dm].roomId = users[Resolve(last.token)].roomId)
        => /\ last.tag = Ok
           /\ PageIds(last.msgs) =
                  Take(Descending(DirectMessageIds(Resolve(last.token), last.dm)), last.limit)

\* mem: the message objects room.idToMessage and room.messages refer to
IdRefs(r) == {idToMsg[r][k] : k \in DOMAIN idToMsg[r]}
ListRefs(r) == {roomMsgs[r][k] : k \in DOMAIN roomMsgs[r]}

\* the messages a backend still stores
\* mem: the objects reachable from room.messages or room.idToMessage;
\* pg: the rows of table messages
StoredMessages ==
    IF backend = "mem"
    THEN {msgObj[ref] : ref \in UNION {IdRefs(r) \cup ListRefs(r) : r \in DOMAIN rooms}}
    ELSE {pgMessages[id] : id \in DOMAIN pgMessages}

\* C16: once removeChannel(adminToken, c) has succeeded, no message with
\* channelId = c is stored any more.
C16_RemovedChannelLeavesNoMessage ==
    \A c \in DOMAIN channels :
        ~channels[c].live => \A msg \in StoredMessages : msg.channelId # c

\* C17: when addUserToChannel(adminToken, u, c) has succeeded, the same call
\* made again right away succeeds too and leaves the members of c as they are.
C17_AddUserTwice ==
    [][(/\ last.op = "addUserToChannel" /\ last.tag = Ok
        /\ last'.op = "addUserToChannel"
        /\ last'.token = last.token
        /\ last'.user = last.user
        /\ last'.channel = last.channel)
           => (last'.tag = Ok /\ members' = members)]_vars

\* the outcome getUsers(token, channelId) has in the current state
Observed(token, channelId) ==
    IF backend = "mem" THEN MemGetUsersResult(token, channelId)
    ELSE PgGetUsersResult(token, channelId)

\* C18: as getUsers(adminToken, channelId) shows it, the member list of a
\* private channel is exactly the creating admin right after createChannel, a
\* successful addUserToChannel(u) adds exactly u to it and a successful
\* removeUserFromChannel(u) removes exactly u from it.
C18_MembersAsObserved ==
    [][\A t \in AnyToken, c \in DOMAIN channels', u \in DOMAIN users :
        /\ (/\ last'.op = "createChannel" /\ last'.tag = Ok
            /\ Len(channels') = Len(channels) + 1
            /\ c = last'.channel /\ channels'[c].isPrivate
            /\ u = last'.user /\ Resolve(t) = u)
               => /\ Observed(t, c)'.tag = Ok
                  /\ Observed(t, c)'.users = {u}
        /\ (/\ last'.op = "addUserToChannel" /\ last'.tag = Ok
            /\ t = last'.token /\ c = last'.channel /\ u = last'.user)
               => /\ Observed(t, c).tag = Ok
                  /\ Observed(t, c)'.tag = Ok
                  /\ Observed(t, c)'.users = Observed(t, c).users \cup {u}
        /\ (/\ last'.op = "removeUserFromChannel" /\ last'.tag = Ok
            /\ t = last'.token /\ c = last'.channel /\ u = last'.user)
               => /\ Observed(t, c).tag = Ok
                  /\ Observed(t, c)'.tag = Ok
                  /\ Observed(t, c)'.users = Observed(t, c).users \ {u}
      ]_vars

\* witness of C18: getUsers shows the creator and one user added later
C18_TwoMembersObserved ==
    /\ last.op = "getUsers" /\ last.tag = Ok
    /\ last.channelId \in PrivateNow
    /\ Cardinality(last.users) = 2
    /\ channels[last.channelId].createdBy \in last.users
    /\ channels[last.channelId].createdBy = Resolve(last.token)

\* C19: createInviteCode with a valid token fails with "User is not an admin
\* and room is admin invite only" exactly when the caller's room is
\* adminInviteOnly and the caller is not an admin; in every other case, that of
\* an admin of an adminInviteOnly room included, it succeeds.
C19_InviteRefusedIffClosedAndNotAdmin ==
    (last.op = "createInviteCode" /\ last.caller # 0)
        => LET refused == /\ rooms[users[last.caller].roomId].adminInviteOnly
                          /\ users[last.caller].role # "admin"
           IN /\ refused => last.tag = "User is not an admin and room is admin invite only"
              /\ ~refused => (last.tag = Ok /\ last.code \in DOMAIN inviteCodes)

\* witness of C19: a participant of an adminInviteOnly room has been refused
C19_ParticipantRefused ==
    /\ last.op = "createInviteCode" /\ last.caller # 0
    /\ rooms[users[last.caller].roomId].adminInviteOnly
    /\ users[last.caller].role = "participant"
    /\ last.tag = "User is not an admin and room is admin invite only"

\* C20: createUserFromInviteCode with a valid code and a display name already
\* used in the code's room returns "Display name already exists in the room",
\* creates no user and leaves the code valid for a later call.
C20_TakenNameReturnsError ==
    (last.op = "createUserFromInviteCode"
     /\ last.tag = "Display name already exists in the room")
        => /\ ~last.thrown
           /\ last.user = 0
           /\ last.code \in DOMAIN inviteCodes

\* C13: a sequence of calls made from the empty state has, call by call, the
\* same outcome on the in-memory backend and on the SQL backend (the same error
\* tag, or success with the same payload up to generated ids).
C13_BackendsAgree ==
    \A i \in 1 .. Len(script.pg) : script.pg[i] = script.mem[i]

\* C21: a successful createUserFromInviteCode creates exactly one user, a
\* participant of the room the code was minted for, and getUsers called by any
\* user of that room (with that user's token) then includes the new user.
C21_InvitedUserJoinsRoom ==
    [][\A v \in DOMAIN users', r \in DOMAIN rooms :
        (/\ last'.op = "createUserFromInviteCode" /\ last'.tag = Ok /\ last' # last
         /\ last'.code \in DOMAIN inviteCodes
         /\ r = inviteCodes[last'.code].roomId
         /\ users'[v].roomId = r)
            => /\ Len(users') = Len(users) + 1
               /\ last'.user = Len(users')
               /\ users'[last'.user].role = "participant"
               /\ users'[last'.user].roomId = r
               /\ \A t \in 1 .. nextToken' :
                      t = users'[v].token
                          => /\ Observed(t, 0)'.tag = Ok
                             /\ last'.user \in Observed(t, 0)'.users
      ]_vars

\* C22: getUsers never returns a user of a room other than the caller's,
\* whatever channelId is supplied.
C22_UsersOfOwnRoomOnly ==
    (last.op = "getUsers" /\ last.tag = Ok)
        => \A u \in last.users : users[u].roomId = users[Resolve(last.token)].roomId

\* C23: an admin operation whose target user or channel belongs to a room
\* other than the admin's returns an error tag; stated for the operations whose
\* outcome names the caller, addUserToChannel and removeUserFromChannel.
C23_OtherRoomTargetRefused ==
    (/\ last.op \in {"addUserToChannel", "removeUserFromChannel"}
     /\ ResolveAdmin(last.token) # 0
     /\ \/ users[last.user].roomId # users[ResolveAdmin(last.token)].roomId
        \/ channels[last.channel].roomId # users[ResolveAdmin(last.token)].roomId)
        => last.tag # Ok

\* ---- scenario: two rooms and snapshots --------------------------------------

\* MemRoom.deserialize accepts the snapshot of room r: every listed message
\* with a channelId finds its channel, every member id of a channel its user
Deserializable(r) ==
    /\ \A i \in 1 .. Len(roomMsgs[r]) :
           msgObj[roomMsgs[r][i]].channelId # 0
               => ChannelInRoom(msgObj[roomMsgs[r][i]].channelId, r)
    /\ \A c \in DOMAIN channels :
           ChannelInRoom(c, r) => members[c] \subseteq UsersOfRoom(r)

\* ChitterMem.serialize written by persistance.save, then initialize of a new
\* ChitterMem on what persistance.load returns.  The snapshot holds, per
\* room, room.users, the channels with their member ids, room.messages and
\* nextMessageId; idToMessage, MemChannel.messages and tokenToUser are built
\* again from these, inviteCodes and transferCodes start empty.  A room whose
\* snapshot deserialize rejects ends initialize: that room and the rooms after
\* it are not loaded.
MemReload ==
    /\ backend = "mem"
    /\ LET bad == {r \in DOMAIN rooms : ~Deserializable(r)}
           loaded == {r \in DOMAIN rooms : \A b \in bad : r < b}
           kept == {u \in roomUsers : users[u].roomId \in loaded}
           InChannel(c) == {ref \in DOMAIN msgObj : msgObj[ref].channelId = c}
           RefOf(r, id) ==
               LET at == {i \in 1 .. Len(roomMsgs[r]) : msgObj[roomMsgs[r][i]].id = id}
               IN roomMsgs[r][CHOOSE i \in at : \A j \in at : j <= i]
       IN
       /\ roomUsers' = kept
       /\ tokenToUser' = [t \in {users[u].token : u \in kept} |->
                              CHOOSE u \in kept : users[u].token = t]
       /\ inviteCodes' = <<>>
       /\ transferCodes' = <<>>
       /\ idToMsg' = [r \in DOMAIN idToMsg |->
                         IF r \in loaded
                         THEN [id \in IdsOf(roomMsgs[r]) |-> RefOf(r, id)]
                         ELSE <<>>]
       /\ chanMsgs' = [c \in DOMAIN chanMsgs |->
                          IF channels[c].live /\ channels[c].roomId \in loaded
                          THEN KeepRefs(roomMsgs[channels[c].roomId], InChannel(c))
                          ELSE <<>>]
       /\ roomMsgs' = [r \in DOMAIN roomMsgs |-> IF r \in loaded THEN roomMsgs[r] ELSE <<>>]
       /\ last' = [op |-> "initialize", tag |-> IF bad = {} THEN Ok ELSE "Error",
                   thrown |-> bad # {}]
    /\ UNCHANGED <<envVars, roomVars, users, nextToken, nextCode, chanVars, msgObj,
                   nextMessageId, pgMessages, pgSeq, maxReturned, calls, histVars>>

\* Two rooms: the admins of up to MaxRooms rooms invite users, who join; every
\* user posts to any channel and to any user, admins remove users, and the
\* in-memory backend is saved and loaded again.
NextRooms ==
    \/ Quiet /\ RoomLeft /\ UserLeft /\ MemCreateRoomAndAdmin("a", FALSE)
    \/ Quiet /\ RoomLeft /\ UserLeft /\ PgCreateRoomAndAdmin("a", FALSE)
    \/ Quiet /\ CodeLeft /\ \E t \in UserTokens : MemCreateInviteCode(t)
    \/ Quiet /\ CodeLeft /\ \E t \in UserTokens : PgCreateInviteCode(t)
    \/ Quiet /\ UserLeft /\ \E c \in DOMAIN inviteCodes : MemCreateUserFromInviteCode(c, "b")
    \/ Quiet /\ UserLeft /\ \E c \in DOMAIN inviteCodes : PgCreateUserLookup(1, c, "b")
    \/ PgCreateUserCheckName(1)
    \/ PgCreateUserCommit(1)
    \/ Quiet /\ \E t \in UserTokens, s \in Selectors :
            MessageLeft(t) /\ MemCreateMessage(t, "hi", s[1], s[2])
    \/ Quiet /\ \E t \in UserTokens, s \in Selectors :
            MessageLeft(t) /\ PgCreateMessage(t, "hi", s[1], s[2])
    \/ Quiet /\ \E u \in UsersNow, t \in AdminTokens : MemRemoveUser(u, t)
    \/ Quiet /\ TokenLeft /\ \E u \in UsersNow, t \in AdminTokens : PgRemoveUser(u, t)
    \/ Quiet /\ last.op # "initialize" /\ MemReload

SpecRooms == Init /\ [][NextRooms]_vars

\* C24: in every reachable state, the author of every stored message, its
\* target channel when it has one, and the user it is directed to when it has
\* one, belong to one room.
C24_MessageWithinOneRoom ==
    \A msg \in StoredMessages :
        /\ msg.channelId # 0 => channels[msg.channelId].roomId = users[msg.userId].roomId
        /\ msg.directMessageUserId # 0
               => /\ msg.directMessageUserId \in DOMAIN users
                  /\ users[msg.directMessageUserId].roomId = users[msg.userId].roomId

\* C25: no two distinct users have the same token; every token that resolves
\* resolves to a user whose room exists; and a token that removeUser has
\* replaced by a new one, once no user has it, is never again the token of a
\* user.
C25_TokensIdentifyUsers ==
    /\ [](/\ \A u, v \in DOMAIN users : u # v => users[u].token # users[v].token
          /\ \A t \in AnyToken : Resolve(t) # 0 => users[Resolve(t)].roomId \in DOMAIN rooms)
    /\ [][\A t \in 1 .. (nextToken - 1) :
              (\/ \A u \in DOMAIN users : users[u].token # t
               \/ \E u \in DOMAIN users : users[u].token = t /\ users'[u].token # t)
                  => \A u \in DOMAIN users' : users'[u].token # t
         ]_vars

\* removeUser has replaced the token of one of two users
C25_TokenReplaced ==
    /\ last.op = "removeUser" /\ last.tag = Ok
    /\ Len(users) >= 2
    /\ users[last.user].token # last.token
    /\ last.token \in revoked

\* C26: when the in-memory backend is saved and the snapshot is loaded into a
\* new instance, getUsers and getMessages return, for every token, channel,
\* user, cursor and limit, what they returned before the save.
C26_ReloadKeepsResults ==
    [][(last'.op = "initialize" /\ last.op # "initialize")
          => \A t \in AnyToken, s \in Selectors :
                 /\ MemGetUsersResult(t, s[1])' = MemGetUsersResult(t, s[1])
                 /\ \A c \in AnyCursor, l \in 1 .. MaxLimit :
                        /\ MemGetMessagesResult(t, s[1], s[2], c, l)'.tag
                               = MemGetMessagesResult(t, s[1], s[2], c, l).tag
                        /\ MemGetMessagesResult(t, s[1], s[2], c, l)'.msgs
                               = MemGetMessagesResult(t, s[1], s[2], c, l).msgs
      ]_vars

\* what getMessages returns on the backend that runs
Read(token, channelId, directMessageUserId, cursor, limit) ==
    IF backend = "mem"
    THEN MemGetMessagesResult(token, channelId, directMessageUserId, cursor, limit)
    ELSE PgGetMessagesResult(token, channelId, directMessageUserId, cursor, limit)

\* C27: when another caller appends a message, a getMessages call with a
\* cursor c not above the new message's id returns after the append what it
\* returned before it, and only messages with an id below c.
C27_AppendsInvisibleBelowCursor ==
    [][\A t \in AnyToken, s \in Selectors, c \in 0 .. MaxStream, l \in 1 .. MaxLimit :
          (/\ last'.op = "createMessage" /\ last'.tag = Ok /\ msgVars' # msgVars
           /\ c <= last'.messageId
           /\ Resolve(t) # Resolve(last'.token)
           /\ Read(t, s[1], s[2], <<c>>, l).tag = Ok)
              => /\ Read(t, s[1], s[2], <<c>>, l)'.tag = Ok
                 /\ Read(t, s[1], s[2], <<c>>, l)'.msgs = Read(t, s[1], s[2], <<c>>, l).msgs
                 /\ \A i \in DOMAIN Read(t, s[1], s[2], <<c>>, l)'.msgs :
                        Read(t, s[1], s[2], <<c>>, l)'.msgs[i].id < c
      ]_vars

\* C28: when removeUser(u, adminToken) succeeds, getMessages returns to every
\* caller other than u, for every channel and every direct conversation, the
\* messages it returned before the removal.
C28_RemoveUserKeepsMessages ==
    [][\A t \in AnyToken, s \in Selectors :
          (/\ last'.op = "removeUser" /\ last'.tag = Ok /\ userVars' # userVars
           /\ Resolve(t) # last'.user
           /\ Read(t, s[1], s[2], <<>>, MaxLimit).tag = Ok)
              => /\ Read(t, s[1], s[2], <<>>, MaxLimit)'.tag = Ok
                 /\ Read(t, s[1], s[2], <<>>, MaxLimit)'.msgs
                        = Read(t, s[1], s[2], <<>>, MaxLimit).msgs
      ]_vars

\* C29: once a getTransferBundleFromCode call has succeeded with a code, every
\* call made afterwards with that code returns "Invalid or expired transfer
\* code" and no user.
C29_UsedTransferRejected ==
    (last.op = "getTransferBundleFromCode" /\ last.later)
        => (last.tag = "Invalid or expired transfer code" /\ last.tokens = {})

\* a transfer code that has been redeemed is presented again and refused
C29_SecondRedeemRefused ==
    /\ last.op = "getTransferBundleFromCode" /\ last.later
    /\ codeHist[last.code].kind = "transfer"
    /\ codeHist[last.code].uses = 1
    /\ last.tag = "Invalid or expired transfer code"

\* C30: getTransferBundleFromCode at a time after expiresAt of its code
\* returns "Invalid or expired transfer code" and no user or token, whether
\* the sweep has removed the code or not.
C30_ExpiredTransferRejected ==
    (/\ last.op = "getTransferBundleFromCode"
     /\ last.code \in DOMAIN codeHist
     /\ codeHist[last.code].kind = "transfer"
     /\ last.at > codeHist[last.code].expiresAt)
        => (last.tag = "Invalid or expired transfer code" /\ last.tokens = {})

\* C31: removeChannel called by an admin with the id of a channel that was
\* removed before, which names no channel in the admin's room, returns success
\* and changes no room, channel, member list or message.
C31_RemoveMissingChannelIsNoOp ==
    [][(/\ last'.op = "removeChannel" /\ last' # last
        /\ last'.tag # "Invalid admin token or non-admin user"
        /\ last'.channel \in DOMAIN channels
        /\ ~channels[last'.channel].live)
           => /\ last'.tag = Ok
              /\ UNCHANGED <<roomVars, chanVars, msgVars>>
      ]_vars

\* the users a backend holds
\* mem: the users in MemRoom.users of some room; pg: the rows of table users
HeldUsers == IF backend = "mem" THEN roomUsers ELSE DOMAIN users

\* the first user of a room is the admin createRoomAndAdmin made with it;
\* every later one joined through an invite code
Invited(u) == \E v \in DOMAIN users : v < u /\ users[v].roomId = users[u].roomId

\* C32: in every reachable state, whatever the interleaving of the calls, no
\* two users of one room who joined through invite codes have the same
\* display name.
C32_InvitedNamesDistinct ==
    \A u, v \in HeldUsers :
        (u # v /\ users[u].roomId = users[v].roomId /\ Invited(u) /\ Invited(v))
            => users[u].displayName # users[v].displayName

\* ---- scenario: shutting down ------------------------------------------------

\* the client has not called close()
Open == timers.close = "none"
\* the persist timeout is left to fire while the model counts its saves
SaveLeft == timers.saves < MaxSaves \/ timers.closed

\* A room's admin mints transfer codes while time passes and the timeouts
\* fire; the client closes the backend and makes no call afterwards, and time
\* goes on.
NextClose ==
    \/ TickLeft /\ \E d \in {1, SweepInterval} : AdvanceTime(d)
    \/ Open /\ rooms = <<>> /\ MemCreateRoomAndAdmin("a", FALSE)
    \/ Open /\ rooms = <<>> /\ PgCreateRoomAndAdmin("a", FALSE)
    \/ Open /\ CodeLeft /\ \E t \in UserTokens : MemCreateTransferBundle({t})
    \/ Open /\ CodeLeft /\ \E t \in UserTokens : PgCreateTransferBundle({t})
    \/ SaveLeft /\ MemPersistFires
    \/ MemCloseSave
    \/ MemCloseReturn
    \/ PgCloseEnd
    \/ PgCloseReturn

SpecClose == Init /\ [][NextClose]_vars

\* C33: once close() has returned, no call of persistance.save is made, the
\* timeout of cleanupCodes is not pending and no sweep removes a code, on
\* either backend; ChitterMem's close has saved once.
C33_NoTimerAfterClose ==
    /\ [](timers.close = "returned" => timers.closed /\ ~timers.sweep)
    /\ [][timers.close = "returned"
             => /\ timers'.saves = timers.saves
                /\ ~timers'.sweep
                /\ UNCHANGED <<inviteCodes, transferCodes>>
         ]_vars
    /\ [][(backend = "mem" /\ timers.close = "none" /\ timers'.close # "none")
             => timers'.saves = timers.saves + 1
         ]_vars

\* after ChitterMem's close has returned its persist timeout has fired, and an
\* expired transfer code is still in the map
C33_TimeoutFiredAfterClose ==
    /\ backend = "mem"
    /\ timers.close = "returned"
    /\ ~timers.persist
    /\ \E c \in DOMAIN transferCodes : transferCodes[c].expiresAt < now

\* C34: a successful removeMessage(token, m) removes message m only: every
\* other stored message is stored afterwards with its id, content and
\* channel, and every page getMessages returned before is returned
\* afterwards without m.
C34_RemoveMessageKeepsOthers ==
    [][(last'.op = "removeMessage" /\ last'.tag = Ok /\ msgVars' # msgVars)
          => /\ \A msg \in StoredMessages :
                    msg.id # last'.messageId => msg \in StoredMessages'
             /\ \A t \in UserTokens, s \in Selectors :
                    Read(t, s[1], s[2], <<>>, MaxStream).tag = Ok
                        => /\ Read(t, s[1], s[2], <<>>, MaxStream)'.tag = Ok
                           /\ \A i \in DOMAIN Read(t, s[1], s[2], <<>>, MaxStream).msgs :
                                  Read(t, s[1], s[2], <<>>, MaxStream).msgs[i].id # last'.messageId
                                      => \E j \in DOMAIN Read(t, s[1], s[2], <<>>, MaxStream)'.msgs :
                                             Read(t, s[1], s[2], <<>>, MaxStream)'.msgs[j]
                                                 = Read(t, s[1], s[2], <<>>, MaxStream).msgs[i]
      ]_vars

C36_IssuedTokenAuthenticates ==
    \A u \in HeldUsers :
        users[u].token \notin revoked => Resolve(users[u].token) = u

\* C37: no token that getTransferBundleFromCode returns resolves to a user on
\* whom removeUser has succeeded, whenever the code was minted.
C37_NoTokenOfRemovedUser ==
    (last.op = "getTransferBundleFromCode" /\ last.tag = Ok)
        => \A t \in last.tokens : Resolve(t) \notin removed

\* C38: every direct message that a getMessages call returns, whatever its
\* directMessageUserId, cursor and limit, was written by the caller or is
\* directed to the caller.
C38_DirectMessagesOnlyToParties ==
    (last.op = "getMessages" /\ last.tag = Ok)
        => \A i \in DOMAIN last.msgs :
               last.msgs[i].directMessageUserId # 0
                   => Resolve(last.token) \in {last.msgs[i].userId,
                                                last.msgs[i].directMessageUserId}

\* a user has read the conversation with another user while a direct message
\* between that user and a third one is stored, and was not given it
C38_ThirdPartyReads ==
    /\ last.op = "getMessages" /\ last.tag = Ok /\ last.dm # 0
    /\ \E msg \in StoredMessages :
           /\ msg.directMessageUserId # 0
           /\ msg.channelId = 0
           /\ last.dm \in {msg.userId, msg.directMessageUserId}
           /\ Resolve(last.token) \notin {0, msg.userId, msg.directMessageUserId}

\* the messages in a backend's list of messages
\* mem: MemRoom.messages, which serialize() writes; pg: the rows of table messages
ListedMessages ==
    IF backend = "mem"
    THEN {msgObj[ref] : ref \in UNION {ListRefs(r) : r \in DOMAIN rooms}}
    ELSE {pgMessages[id] : id \in DOMAIN pgMessages}

\* C39: when removeChannel(adminToken, c) succeeds and removes c, every message
\* that is not in channel c stays in the backend's list of messages, and
\* getMessages returns for every other channel and for every user what it
\* returned before.
C39_RemoveChannelKeepsOthers ==
    [][(last'.op = "removeChannel" /\ last'.tag = Ok /\ channels' # channels)
          => /\ \A msg \in ListedMessages :
                    msg.channelId # last'.channel => msg \in ListedMessages'
             /\ \A t \in AnyToken, s \in Selectors :
                    (s[1] # last'.channel /\ Read(t, s[1], s[2], <<>>, MaxLimit).tag = Ok)
                        => /\ Read(t, s[1], s[2], <<>>, MaxLimit)'.tag = Ok
                           /\ Read(t, s[1], s[2], <<>>, MaxLimit)'.msgs
                                  = Read(t, s[1], s[2], <<>>, MaxLimit).msgs
      ]_vars

\* C40: every member of a private channel is a user of the room that the
\* channel belongs to.
C40_MembersAreRoomUsers ==
    \A c \in DOMAIN channels :
        (channels[c].live /\ channels[c].isPrivate)
            => members[c] \subseteq UsersOfRoom(channels[c].roomId)

====
